---- MODULE Spec2Model ----
(***************************************************************************)
(* workflow-manager of prio-server: the scheduler that lists batches in    *)
(* the ingestion and validation buckets, publishes intake and aggregate    *)
(* tasks through two enqueuers and writes a task marker after each         *)
(* acknowledged publish (src/workflow-manager/main.go), with the           *)
(* batch-path model it relies on (batchpath: src/unnamed/part_006).        *)
(*                                                                         *)
(* The packages storage, task, wftime and utils are not among the source   *)
(* files; the operators that stand for them follow spec.md (4.2, 4.3,      *)
(* 4.5).                                                                   *)
(*                                                                         *)
(* Time is counted in hours.  An aggregation ID and a batch ID are         *)
(* sequences of dash-free tokens ("kittens-seen" is <<"kittens","seen">>), *)
(* so that a marker key, the dash-joined concatenation, is the             *)
(* concatenation of the token sequences.                                   *)
(***************************************************************************)
EXTENDS Naturals, Sequences, FiniteSets, TLC

VARIABLES
    intakeBucket,               \* files (objects) of the ingestion bucket
    ownValidationBucket,        \* batch files of the own-validation bucket
    peerValidationBucket,       \* batch files of the peer-validation bucket
    isFirst,                    \* --is-first
    markers,                    \* task-markers/ objects of the own-validation bucket
    now,                        \* the wall clock
    faults,                     \* failures injected so far (listing, publish, marker write)
    pc,                         \* per run: the control thread's position
    aggregationIDs,             \* per run: main's aggregationIDs
    idx,                        \* per run: position of main's loop in aggregationIDs
    runNow,                     \* per run: the clock reading of the run
    intakeBatches,              \* per run: scheduleTasks' intakeBatches
    intakeTaskMarkersSet,       \* per run: scheduleTasks' intakeTaskMarkersSet
    ownValidationBatches,       \* per run: scheduleTasks' ownValidationBatches
    aggregationBatches,         \* per run: scheduleTasks' aggregationBatches
    aggregationTaskMarkersSet,  \* per run: scheduleTasks' aggregationTaskMarkersSet
    markersAtListing,           \* per run: the bucket's markers when each listing was made
    calls,                      \* per run: the Enqueue calls made, in order
    st,                         \* per run: the state of each Enqueue call
    cb,                         \* per run: how often each call's on_complete was invoked
    stops,                      \* per run: how often Stop returned, per enqueuer
    stopCb,                     \* per run: callbacks begun on an enqueuer after its Stop returned
    results,                    \* per run: what each scheduleTasks call returned
    gauges,                     \* per run: the prometheus gauges
    exitCode,                   \* per run: the process's exit code
    batchName,                  \* batchpath: the object key handed to New
    fileNames,                  \* batchpath: the object keys handed to ReadyBatches as files
    fileInfix,                  \* batchpath: the infix handed to ReadyBatches
    output,                     \* batchpath: what the last call returned
    namespace,                  \* secrets: the secrets of the Kubernetes namespace
    dryRun                      \* the --dry-run flag

vars == <<intakeBucket, ownValidationBucket, peerValidationBucket, isFirst,
          markers, now, faults, pc, aggregationIDs, idx, runNow, intakeBatches,
          intakeTaskMarkersSet, ownValidationBatches, aggregationBatches,
          aggregationTaskMarkersSet, markersAtListing, calls, st, cb, stops,
          stopCb, results, gauges, exitCode, batchName, fileNames, fileInfix, output, dryRun,
          namespace>>

buckets == <<intakeBucket, ownValidationBucket, peerValidationBucket, isFirst, dryRun>>
locals == <<intakeBatches, intakeTaskMarkersSet, ownValidationBatches,
            aggregationBatches, aggregationTaskMarkersSet, markersAtListing>>
enqueuers == <<calls, st, cb, stops, stopCb>>
library == <<batchName, fileNames, fileInfix, output, namespace>>

----------------------------------------------------------------------------
\* Bounds of the model.

\* Runs of the process (one cron invocation each).
MaxRuns == 2
\* Listing, publish and marker-write failures per behaviour.
MaxFaults == 1
\* Batches (complete or not) present in the three buckets together.
MaxBatches == 4
\* The clock stops advancing here.
MaxNow == 10

Procs == 1..MaxRuns

----------------------------------------------------------------------------
\* Flag defaults of main.go, in hours.

maxAge == 1
aggregationPeriod == 3
gracePeriod == 1
Day == 24

----------------------------------------------------------------------------
\* wftime, utils (from spec.md 3, 4.4, 4.5).

\* The clock starts at the end of a window.
InitNow == 3 * aggregationPeriod

\* intakeInterval of scheduleTasks: [now - maxAge, now + 24h).
IntakeInterval(t) == [Begin |-> t - maxAge, End |-> t + Day]

\* A window that ends at now - grace wherever that falls.
SlidingInterval(t, period, grace) ==
    [Begin |-> t - grace - period, End |-> t - grace]

\* wftime.AggregationInterval: n = floor((now - grace) / period),
\* [n * period, (n + 1) * period).
AggregationInterval(t, period, grace) ==
    LET n == (t - grace) \div period
    IN  [Begin |-> n * period, End |-> (n + 1) * period]

\* Interval membership: inclusive begin, exclusive end.
InInterval(x, iv) == iv.Begin <= x /\ x < iv.End

\* wftime.Timestamp as it is written into marker keys.
Timestamp(t) == ToString(t)

\* utils.Index: 0 for true, 1 for false.
Index(b) == IF b THEN 0 ELSE 1

\* fmt.Sprintf("validity_%d", n)
ValidityInfix(n) == IF n = 0 THEN "validity_0" ELSE "validity_1"

\* An own infix that does not depend on the role.
ownValidityInfixOfFirst(first) == ValidityInfix(0)

ownValidityInfix(first) == ValidityInfix(Index(first))
peerValidityInfix(first) == ValidityInfix(Index(~first))

----------------------------------------------------------------------------
\* Objects.  A batch file <aid>/<date>/<id>.<infix><suffix> is the record
\* [aid, time, id, infix, kind], kind naming the suffix: "meta" for none,
\* "avro" for .avro, "sig" for .sig.

Kinds == {"meta", "avro", "sig"}

FilesOf(b, infix, ks) ==
    {[aid |-> b.aid, time |-> b.time, id |-> b.id, infix |-> infix, kind |-> k] : k \in ks}

\* storage.Bucket.ListAggregationIDs: the distinct first path components.
ListAggregationIDs(bucket) == {f.aid : f \in bucket}

\* storage.Bucket.ListBatchFiles: the objects under <aid>/ whose time is in
\* the interval.
ListBatchFiles(bucket, aid, iv) ==
    {f \in bucket : f.aid = aid /\ InInterval(f.time, iv)}

----------------------------------------------------------------------------
\* batchpath.

\* basename + New: the batch a file of this infix belongs to.  A file of
\* another infix keeps its suffix in the name and sets no flag.
Basenames(files, infix) ==
    {[aid |-> f.aid, time |-> f.time, id |-> f.id] : f \in {g \in files : g.infix = infix}}

\* BatchPath.isComplete after the flag-setting loop of ReadyBatches.
isComplete(files, infix, b) ==
    \A k \in Kinds :
        [aid |-> b.aid, time |-> b.time, id |-> b.id, infix |-> infix, kind |-> k] \in files

CompleteBatches(files, infix) ==
    {b \in Basenames(files, infix) : isComplete(files, infix, b)}

\* A comparison that sorts the latest batch first.
LessReversed(a, b) == a.time > b.time

\* List.Less: by time alone.
Less(a, b) == a.time < b.time

SeqsOf(S) ==
    {s \in [1..Cardinality(S) -> S] : \A i, j \in 1..Cardinality(S) : i # j => s[i] # s[j]}

\* ReadyBatches: the complete batches, collected from a map in no fixed
\* order and sorted with sort.Sort (not stable) by Less: every arrangement
\* in which no batch precedes one that is Less than it.
ReadyBatches(files, infix) ==
    {s \in SeqsOf(CompleteBatches(files, infix)) :
        \A i, j \in DOMAIN s : i < j => ~Less(s[j], s[i])}

----------------------------------------------------------------------------
\* task.

IntakeTask(b) == [kind |-> "intake", aid |-> b.aid, id |-> b.id, date |-> b.time]

AggregationTask(aid, window, readyBatches) ==
    [kind |-> "aggregate", aid |-> aid, start |-> window.Begin, end |-> window.End,
     batches |-> [i \in DOMAIN readyBatches |->
                    [id |-> readyBatches[i].id, time |-> readyBatches[i].time]]]

\* task.IntakeBatch.Marker / task.Aggregation.Marker:
\* intake-<aid>-<batchID>, aggregate-<aid>-<start>-<end>.
Marker(t) ==
    IF t.kind = "intake"
    THEN <<"intake">> \o t.aid \o t.id
    ELSE <<"aggregate">> \o t.aid \o <<Timestamp(t.start), Timestamp(t.end)>>

HasPrefix(m, pre) == Len(m) > Len(pre) /\ SubSeq(m, 1, Len(pre)) = pre

\* A write that leaves the new marker as the only one.
OverwriteTaskMarkers(ms, key, dry) == {key}

\* A write that is executed in dry-run mode too.
WriteTaskMarkerForReal(ms, key, dry) == ms \cup {key}

\* storage.Bucket.WriteTaskMarker: creates the marker object; in dry-run
\* mode the call is traced and nothing is created.
WriteTaskMarker(ms, key, dry) == IF dry THEN ms ELSE ms \cup {key}

\* storage.Bucket.ListIntakeTaskMarkers: keys under task-markers/intake-<aid>-
ListIntakeTaskMarkers(ms, aid) == {m \in ms : HasPrefix(m, <<"intake">> \o aid)}

\* storage.Bucket.ListAggregateTaskMarkers: keys under task-markers/aggregate-<aid>-
ListAggregateTaskMarkers(ms, aid) == {m \in ms : HasPrefix(m, <<"aggregate">> \o aid)}

----------------------------------------------------------------------------
\* The decisions of scheduleTasks, enqueueIntakeTasks and
\* enqueueAggregationTask.

Range(s) == {s[i] : i \in DOMAIN s}

\* A lookup that takes any marker of the aggregation ID for the batch's.
intakeSkippedDueToAnyMarker(task, taskMarkers) == taskMarkers # {}

\* A lookup that never finds the marker.
intakeNeverSkipped(task, taskMarkers) == FALSE

\* enqueueIntakeTasks: the marker lookup that skips a batch.
intakeSkippedDueToMarker(task, taskMarkers) == Marker(task) \in taskMarkers

\* A lookup that never finds the marker.
aggregationNeverSkipped(task, taskMarkers) == FALSE

\* enqueueAggregationTask: the marker lookup that skips the window.
aggregationSkippedDueToMarker(task, taskMarkers) == Marker(task) \in taskMarkers

\* The peer's batches, whether or not this server has them.
PeerBatches(own, peer) == peer

\* scheduleTasks: the peer batches whose ID is in ownValidationsSet, in
\* peer order.
IntersectBatches(own, peer) ==
    SelectSeq(peer, LAMBDA b : b.id \in {o.id : o \in Range(own)})

\* A callback that never gets to the marker write.
intakeCallbackNeverWritesMarker(err) == FALSE

\* A callback that writes the marker whatever the publish's outcome.
intakeCallbackAlwaysWritesMarker(err) == TRUE

\* The intake on_complete: whether it goes on to WriteTaskMarker.
intakeCallbackWritesMarker(err) == ~err

\* A callback that writes the marker whatever the publish's outcome.
aggregationCallbackAlwaysWritesMarker(err) == TRUE

\* The aggregation on_complete: whether it goes on to WriteTaskMarker.
aggregationCallbackWritesMarker(err) == ~err

\* The intake on_complete: whether intakesStarted is incremented.
intakeCallbackCounts(err, written) == ~err /\ written

\* The aggregation on_complete: aggregationsStarted is incremented after
\* the marker write whether or not it failed.
aggregationCallbackCounts(err, written) == ~err

----------------------------------------------------------------------------
\* The buckets the model starts from.

A == <<"a">>
B == <<"a", "b">>

\* T0 and the hour before it are in the aggregation window of InitNow, and
\* T0 is in its intake interval; one hour later T0 has left the intake
\* interval and the window has moved on to the one that holds T1.
T0 == InitNow - maxAge
T1 == InitNow

\* A batch ID is a UUID minted for the batch: no two batches share one.
IntakeSlots ==
    {[aid |-> A, time |-> T0, id |-> <<"u1">>],
     [aid |-> A, time |-> T0, id |-> <<"u2">>],
     [aid |-> B, time |-> T1, id |-> <<"u3">>]}

ValidationSlots ==
    {[aid |-> A, time |-> T0, id |-> <<"v1">>],
     [aid |-> A, time |-> T0 - 1, id |-> <<"v2">>]}

Slots == ({"intake"} \X IntakeSlots) \cup ({"own", "peer"} \X ValidationSlots)

\* A batch is absent, lacks its signature, or is complete.
Presence == {{}, {"meta", "avro"}, Kinds}

\* The batches that may lack their signature.
Incompletable ==
    {<<"intake", [aid |-> A, time |-> T0, id |-> <<"u2">>]>>,
     <<"peer", [aid |-> A, time |-> T0, id |-> <<"v1">>]>>}

Layouts ==
    {L \in [Slots -> Presence] :
        /\ Cardinality({s \in Slots : L[s] # {}}) <= MaxBatches
        /\ \A s \in Slots : L[s] = {"meta", "avro"} => s \in Incompletable}

BucketOf(L, which, infix) ==
    UNION {FilesOf(s[2], infix, L[s]) : s \in {x \in Slots : x[1] = which}}

----------------------------------------------------------------------------
\* The state after construction: some bucket contents, no marker, no run.

NoGauges ==
    [intakesStarted |-> 0, intakesSkippedDueToMarker |-> 0,
     aggregationsStarted |-> 0, aggregationsSkippedDueToMarker |-> 0,
     lastFailure |-> 0, pushes |-> 0]

\* No call of the batchpath package has been made on a key of its own.
NoOutput == [kind |-> "none"]

IdleLibrary ==
    /\ batchName = <<>>
    /\ fileNames = <<>>
    /\ fileInfix = "batch"
    /\ namespace = {}
    /\ output = NoOutput

\* No run of the process has started.
InitProcess ==
    /\ markers = {}
    /\ now = InitNow
    /\ faults = 0
    /\ pc = [p \in Procs |-> "idle"]
    /\ aggregationIDs = [p \in Procs |-> <<>>]
    /\ idx = [p \in Procs |-> 1]
    /\ runNow = [p \in Procs |-> 0]
    /\ intakeBatches = [p \in Procs |-> <<>>]
    /\ intakeTaskMarkersSet = [p \in Procs |-> {}]
    /\ ownValidationBatches = [p \in Procs |-> <<>>]
    /\ aggregationBatches = [p \in Procs |-> <<>>]
    /\ aggregationTaskMarkersSet = [p \in Procs |-> {}]
    /\ markersAtListing = [p \in Procs |-> [intake |-> {}, aggregate |-> {}]]
    /\ calls = [p \in Procs |-> <<>>]
    /\ st = [p \in Procs |-> <<>>]
    /\ cb = [p \in Procs |-> <<>>]
    /\ stops = [p \in Procs |-> [intake |-> 0, aggregate |-> 0]]
    /\ stopCb = [p \in Procs |-> [intake |-> 0, aggregate |-> 0]]
    /\ results = [p \in Procs |-> <<>>]
    /\ gauges = [p \in Procs |-> NoGauges]
    /\ exitCode = [p \in Procs |-> 0]

InitRuns == InitProcess /\ IdleLibrary

InitBuckets(L, first) ==
    /\ isFirst = first
    /\ dryRun = FALSE
    /\ intakeBucket = BucketOf(L, "intake", "batch")
    /\ ownValidationBucket = BucketOf(L, "own", ownValidityInfix(first))
    /\ peerValidationBucket = BucketOf(L, "peer", peerValidityInfix(first))

Init ==
    /\ \E L \in Layouts, first \in BOOLEAN : InitBuckets(L, first)
    /\ InitRuns

----------------------------------------------------------------------------
\* Helpers of the actions.

CanFail == faults < MaxFaults
Fail == CanFail /\ faults' = faults + 1
NoFail == faults' = faults

Alive(p) == pc[p] \notin {"idle", "exited"}
Settled(s) == s \in {"marked", "unmarked", "failedDone"}

aggregationID(p) == aggregationIDs[p][idx[p]]

Goto(p, label) == pc' = [pc EXCEPT ![p] = label]

\* A loop that gives up at the first scheduleTasks error.
ReturnAbortingOnError(p, err, awaited) ==
    /\ results' = [results EXCEPT ![p] = Append(@,
            [aid |-> aggregationID(p), err |-> err, at |-> pc[p], awaited |-> awaited,
             submitted |-> \E n \in DOMAIN calls[p] : calls[p][n].iter = idx[p]])]
    /\ idx' = [idx EXCEPT ![p] = IF err THEN Len(aggregationIDs[p]) + 1 ELSE @ + 1]
    /\ Goto(p, "loop")

\* scheduleTasks returns to main's loop, which logs an error, sets
\* workflow_manager_last_success_seconds and the runtime (once per entry of
\* results), and goes on to the next aggregation ID.  The entry keeps
\* where scheduleTasks returned from (at), whether it had submitted tasks
\* and whether it had awaited both Stops.
Return(p, err, awaited) ==
    /\ results' = [results EXCEPT ![p] = Append(@,
            [aid |-> aggregationID(p), err |-> err, at |-> pc[p], awaited |-> awaited,
             submitted |-> \E n \in DOMAIN calls[p] : calls[p][n].iter = idx[p]])]
    /\ idx' = [idx EXCEPT ![p] = @ + 1]
    /\ Goto(p, "loop")

----------------------------------------------------------------------------
\* main.

\* main up to the loop: flags, buckets, enqueuers, ListAggregationIDs.  A
\* fatal error goes through fail(): last_failure is set and log.Fatal ends
\* the process with a non-zero code there and then, deferred functions not
\* run.
StartRun(p) ==
    /\ pc[p] = "idle"
    /\ runNow' = [runNow EXCEPT ![p] = now]
    /\ \/ /\ NoFail
          /\ \E ids \in SeqsOf(ListAggregationIDs(intakeBucket)) :
                aggregationIDs' = [aggregationIDs EXCEPT ![p] = ids]
          /\ Goto(p, "loop")
          /\ UNCHANGED <<gauges, exitCode>>
       \/ /\ Fail
          /\ gauges' = [gauges EXCEPT ![p].lastFailure = @ + 1]
          /\ exitCode' = [exitCode EXCEPT ![p] = 1]
          /\ Goto(p, "exited")
          /\ UNCHANGED aggregationIDs
    /\ UNCHANGED <<library, buckets, markers, now, idx, locals, enqueuers, results>>

\* One run at a time: a run starts when the run before it has exited.
Start(p) ==
    /\ \A q \in Procs : q < p => pc[q] = "exited"
    /\ StartRun(p)

\* The loop is over: main returns, its deferred function pushes the gauges
\* to the gateway, and the process exits with code 0.  Workers still
\* publishing end with it.
Exit(p) ==
    /\ pc[p] = "loop"
    /\ idx[p] > Len(aggregationIDs[p])
    /\ gauges' = [gauges EXCEPT ![p].pushes = @ + 1]
    /\ Goto(p, "exited")
    /\ UNCHANGED <<library, buckets, markers, now, faults, aggregationIDs, idx, runNow, locals,
                   enqueuers, results, exitCode>>

----------------------------------------------------------------------------
\* scheduleTasks.

\* The loop calls scheduleTasks for the next aggregation ID: ListBatchFiles
\* on the intake bucket and ReadyBatches(.., "batch").
ScheduleTasks(p) ==
    /\ pc[p] = "loop"
    /\ idx[p] <= Len(aggregationIDs[p])
    /\ \/ /\ NoFail
          /\ \E bs \in ReadyBatches(
                    ListBatchFiles(intakeBucket, aggregationID(p), IntakeInterval(now)),
                    "batch") :
                intakeBatches' = [intakeBatches EXCEPT ![p] = bs]
          /\ Goto(p, "intake")
          /\ UNCHANGED <<idx, results>>
       \/ /\ Fail
          /\ Return(p, TRUE, FALSE)
          /\ UNCHANGED intakeBatches
    /\ UNCHANGED <<library, buckets, markers, now, aggregationIDs, runNow, intakeTaskMarkersSet, gauges,
                   ownValidationBatches, aggregationBatches, aggregationTaskMarkersSet,
                   markersAtListing, enqueuers, exitCode>>

\* enqueueIntakeTasks: every ready batch without a marker in the set is
\* submitted, in list order; the others are counted as skipped.
enqueueIntakeTasks(p, readyBatches, taskMarkers) ==
    LET tasks == [i \in DOMAIN readyBatches |-> IntakeTask(readyBatches[i])]
        scheduled == SelectSeq(tasks, LAMBDA t : ~intakeSkippedDueToMarker(t, taskMarkers))
    IN  /\ calls' = [calls EXCEPT ![p] = @ \o
                [i \in DOMAIN scheduled |->
                    [enq |-> "intake", task |-> scheduled[i], iter |-> idx[p],
                     listed |-> taskMarkers, present |-> markers]]]
        /\ st' = [st EXCEPT ![p] = @ \o [i \in DOMAIN scheduled |-> "queued"]]
        /\ cb' = [cb EXCEPT ![p] = @ \o [i \in DOMAIN scheduled |-> 0]]
        /\ gauges' = [gauges EXCEPT ![p].intakesSkippedDueToMarker =
                        @ + (Len(tasks) - Len(scheduled))]

\* ListIntakeTaskMarkers, the set made of it, and enqueueIntakeTasks.
IntakeStage(p) ==
    /\ pc[p] = "intake"
    /\ \/ /\ NoFail
          /\ intakeTaskMarkersSet' = [intakeTaskMarkersSet EXCEPT ![p] =
                ListIntakeTaskMarkers(markers, aggregationID(p))]
          /\ markersAtListing' = [markersAtListing EXCEPT ![p].intake = markers]
          /\ enqueueIntakeTasks(p, intakeBatches[p],
                ListIntakeTaskMarkers(markers, aggregationID(p)))
          /\ Goto(p, "validations")
          /\ UNCHANGED <<idx, results>>
       \/ /\ Fail
          /\ Return(p, TRUE, FALSE)
          /\ UNCHANGED <<intakeTaskMarkersSet, markersAtListing, calls, st, cb, gauges>>
    /\ UNCHANGED <<library, buckets, markers, now, aggregationIDs, runNow, intakeBatches,
                   ownValidationBatches, aggregationBatches, aggregationTaskMarkersSet,
                   stops, stopCb, exitCode>>

\* ListBatchFiles on the own-validation and on the peer-validation bucket
\* over the aggregation interval, ReadyBatches with the own and with the
\* peer infix, and the intersection.  Either listing may fail.
ListValidations(p) ==
    /\ pc[p] = "validations"
    /\ \/ /\ NoFail
          /\ \E own \in ReadyBatches(
                    ListBatchFiles(ownValidationBucket, aggregationID(p),
                        AggregationInterval(now, aggregationPeriod, gracePeriod)),
                    ownValidityInfix(isFirst)),
                peer \in ReadyBatches(
                    ListBatchFiles(peerValidationBucket, aggregationID(p),
                        AggregationInterval(now, aggregationPeriod, gracePeriod)),
                    peerValidityInfix(isFirst)) :
                /\ ownValidationBatches' = [ownValidationBatches EXCEPT ![p] = own]
                /\ aggregationBatches' = [aggregationBatches EXCEPT ![p] =
                        IntersectBatches(own, peer)]
          /\ Goto(p, "aggregation")
          /\ UNCHANGED <<idx, results>>
       \/ /\ Fail
          /\ Return(p, TRUE, FALSE)
          /\ UNCHANGED <<ownValidationBatches, aggregationBatches>>
    /\ UNCHANGED <<library, buckets, markers, now, aggregationIDs, runNow, intakeBatches, gauges,
                   intakeTaskMarkersSet, aggregationTaskMarkersSet,
                   markersAtListing, enqueuers, exitCode>>

\* A loop over the batches that compares no aggregation ID.
aggregationIDNeverChecked(aid, readyBatches) == FALSE

\* The loop of enqueueAggregationTask: whether some batch has another
\* aggregation ID than the task's.
aggregationIDMismatch(aid, readyBatches) == \E b \in Range(readyBatches) : b.aid # aid

\* enqueueAggregationTask: nothing for an empty list, an error for a batch
\* of another aggregation ID, a skip when the window's marker is in the
\* set, otherwise one aggregate task is submitted.  TRUE in err stands for
\* the error returned.
enqueueAggregationTask(p, aid, readyBatches, aggregationWindow, taskMarkers, err) ==
    LET aggregationTask == AggregationTask(aid, aggregationWindow, readyBatches)
        enqueued ==
            /\ Len(readyBatches) # 0
            /\ ~aggregationIDMismatch(aid, readyBatches)
            /\ ~aggregationSkippedDueToMarker(aggregationTask, taskMarkers)
        new == IF enqueued THEN <<aggregationTask>> ELSE <<>>
    IN  /\ err = aggregationIDMismatch(aid, readyBatches)
        /\ calls' = [calls EXCEPT ![p] = @ \o
                [i \in DOMAIN new |->
                    [enq |-> "aggregate", task |-> new[i], iter |-> idx[p],
                     listed |-> taskMarkers, present |-> markers]]]
        /\ st' = [st EXCEPT ![p] = @ \o [i \in DOMAIN new |-> "queued"]]
        /\ cb' = [cb EXCEPT ![p] = @ \o [i \in DOMAIN new |-> 0]]
        /\ gauges' = [gauges EXCEPT ![p].aggregationsSkippedDueToMarker =
                IF /\ Len(readyBatches) # 0
                   /\ ~err
                   /\ aggregationSkippedDueToMarker(aggregationTask, taskMarkers)
                THEN @ + 1 ELSE @]

\* ListAggregateTaskMarkers, the set made of it, and
\* enqueueAggregationTask.
AggregationStage(p) ==
    /\ pc[p] = "aggregation"
    /\ \/ /\ NoFail
          /\ aggregationTaskMarkersSet' = [aggregationTaskMarkersSet EXCEPT ![p] =
                ListAggregateTaskMarkers(markers, aggregationID(p))]
          /\ markersAtListing' = [markersAtListing EXCEPT ![p].aggregate = markers]
          /\ \E err \in BOOLEAN :
                /\ enqueueAggregationTask(p, aggregationID(p), aggregationBatches[p],
                        AggregationInterval(now, aggregationPeriod, gracePeriod),
                        ListAggregateTaskMarkers(markers, aggregationID(p)), err)
                /\ IF err
                   THEN Return(p, TRUE, FALSE)
                   ELSE /\ Goto(p, "stopIntake")
                        /\ UNCHANGED <<idx, results>>
       \/ /\ Fail
          /\ Return(p, TRUE, FALSE)
          /\ UNCHANGED <<aggregationTaskMarkersSet, markersAtListing, calls, st, cb, gauges>>
    /\ UNCHANGED <<library, buckets, markers, now, aggregationIDs, runNow, intakeBatches,
                   intakeTaskMarkersSet, ownValidationBatches, aggregationBatches,
                   stops, stopCb, exitCode>>

\* task.Enqueuer.Stop: returns when every on_complete of the enqueuer has
\* returned.
Outstanding(p, enq) ==
    {n \in DOMAIN calls[p] : calls[p][n].enq = enq /\ ~Settled(st[p][n])}

\* config.intakeTaskEnqueuer.Stop()
StopIntake(p) ==
    /\ pc[p] = "stopIntake"
    /\ Outstanding(p, "intake") = {}
    /\ stops' = [stops EXCEPT ![p].intake = @ + 1]
    /\ Goto(p, "stopAggregation")
    /\ UNCHANGED <<library, buckets, markers, now, faults, aggregationIDs, idx, runNow, locals,
                   calls, st, cb, stopCb, results, gauges, exitCode>>

\* config.aggregationTaskEnqueuer.Stop() and return nil.
StopAggregation(p) ==
    /\ pc[p] = "stopAggregation"
    /\ Outstanding(p, "aggregate") = {}
    /\ stops' = [stops EXCEPT ![p].aggregate = @ + 1]
    /\ Return(p, FALSE, TRUE)
    /\ UNCHANGED <<library, buckets, markers, now, faults, aggregationIDs, runNow, locals,
                   calls, st, cb, stopCb, gauges, exitCode>>

----------------------------------------------------------------------------
\* The enqueuers' workers.

\* A worker publishes a submitted task: the broker acknowledges it or the
\* publish fails for good.
Publish(p, n) ==
    /\ Alive(p)
    /\ n \in DOMAIN calls[p]
    /\ st[p][n] = "queued"
    /\ \/ NoFail /\ st' = [st EXCEPT ![p][n] = "acked"]
       \/ Fail /\ st' = [st EXCEPT ![p][n] = "nacked"]
    /\ UNCHANGED <<library, buckets, markers, now, pc, aggregationIDs, idx, runNow, locals,
                   calls, cb, stops, stopCb, results, gauges, exitCode>>

\* The worker invokes on_complete with the publish's outcome: the closures
\* of enqueueIntakeTasks and enqueueAggregationTask.  WriteTaskMarker
\* creates the marker object or fails.
OnComplete(p, n) ==
    /\ Alive(p)
    /\ n \in DOMAIN calls[p]
    /\ st[p][n] \in {"acked", "nacked"}
    /\ LET c == calls[p][n]
           err == st[p][n] = "nacked"
           writes == IF c.enq = "intake" THEN intakeCallbackWritesMarker(err)
                     ELSE aggregationCallbackWritesMarker(err)
           counts(w) == IF c.enq = "intake" THEN intakeCallbackCounts(err, w)
                        ELSE aggregationCallbackCounts(err, w)
           started == IF c.enq = "intake" THEN "intakesStarted" ELSE "aggregationsStarted"
           done(w) ==
               /\ st' = [st EXCEPT ![p][n] =
                            IF err THEN "failedDone" ELSE IF w THEN "marked" ELSE "unmarked"]
               /\ gauges' = [gauges EXCEPT ![p][started] = IF counts(w) THEN @ + 1 ELSE @]
       IN  IF writes
           THEN \/ /\ NoFail
                   /\ markers' = WriteTaskMarker(markers, Marker(c.task), dryRun)
                   /\ done(TRUE)
                \/ /\ Fail
                   /\ markers' = markers
                   /\ done(FALSE)
           ELSE /\ NoFail
                /\ markers' = markers
                /\ done(FALSE)
    /\ cb' = [cb EXCEPT ![p][n] = @ + 1]
    /\ stopCb' = [stopCb EXCEPT ![p][calls[p][n].enq] =
                    IF stops[p][calls[p][n].enq] > 0 THEN @ + 1 ELSE @]
    /\ UNCHANGED <<library, buckets, now, pc, aggregationIDs, idx, runNow, locals, calls, stops,
                   results, exitCode>>

----------------------------------------------------------------------------
\* The clock advances between two runs.
Tick ==
    /\ \A p \in Procs : ~Alive(p)
    /\ \E p \in Procs : pc[p] = "idle"
    /\ \E p \in Procs : pc[p] = "exited"
    /\ now < MaxNow
    /\ now' = now + 1
    /\ UNCHANGED <<library, buckets, markers, faults, pc, aggregationIDs, idx, runNow, locals,
                   enqueuers, results, gauges, exitCode>>

Step(p) ==
    \/ ScheduleTasks(p)
    \/ IntakeStage(p)
    \/ ListValidations(p)
    \/ AggregationStage(p)
    \/ StopIntake(p)
    \/ StopAggregation(p)
    \/ Exit(p)
    \/ \E n \in 1..(MaxBatches + 1) : Publish(p, n) \/ OnComplete(p, n)

\* Runs follow one another, as the cron schedule starts them.
Next ==
    \/ \E p \in Procs : Start(p) \/ Step(p)
    \/ Tick

Spec == Init /\ [][Next]_vars

----------------------------------------------------------------------------
\* Vocabulary of the properties.

\* The broker acknowledged the call's publish.
Published(p, n) == st[p][n] \in {"acked", "marked", "unmarked"}

\* The publish failed for good.
PublishFailed(p, n) == st[p][n] \in {"nacked", "failedDone"}

\* Two tasks are the same unit of work: the same batch, or the same window
\* of the same aggregation ID.
SameTask(t, u) ==
    /\ t.kind = u.kind
    /\ t.aid = u.aid
    /\ IF t.kind = "intake" THEN t.id = u.id ELSE t.start = u.start /\ t.end = u.end

\* Some call wrote the marker of task t.
MarkerWritten(t) ==
    \E p \in Procs : \E n \in DOMAIN calls[p] :
        SameTask(calls[p][n].task, t) /\ st[p][n] = "marked"

\* Run q lists the same batch objects over the same intervals as run p.
SameInputs(p, q) ==
    /\ AggregationInterval(runNow[p], aggregationPeriod, gracePeriod)
         = AggregationInterval(runNow[q], aggregationPeriod, gracePeriod)
    /\ \A aid \in ListAggregationIDs(intakeBucket) :
          ListBatchFiles(intakeBucket, aid, IntakeInterval(runNow[p]))
            = ListBatchFiles(intakeBucket, aid, IntakeInterval(runNow[q]))

\* Run q has been through the enqueue stage of the given kind for the
\* aggregation ID: its listings before that stage succeeded.
PastEnqueue(q, kind, aid) ==
    \E i \in DOMAIN aggregationIDs[q] :
        /\ aggregationIDs[q][i] = aid
        /\ \/ /\ i = idx[q]
              /\ pc[q] \in (IF kind = "intake"
                            THEN {"validations", "aggregation", "stopIntake", "stopAggregation"}
                            ELSE {"stopIntake", "stopAggregation"})
           \/ /\ i <= Len(results[q])
              /\ results[q][i].at \in (IF kind = "intake"
                                       THEN {"validations", "aggregation", "stopAggregation"}
                                       ELSE {"stopAggregation"})

\* Run p is over, every scheduleTasks call of it returned nil, and every
\* publish and marker write of it succeeded.
RunClean(p) ==
    /\ pc[p] = "exited"
    /\ exitCode[p] = 0
    /\ \A i \in DOMAIN results[p] : ~results[p][i].err
    /\ \A n \in DOMAIN calls[p] : st[p][n] = "marked"

\* The batches a run at time t finds ready for intake under aid, and the
\* batch IDs it finds validated by both servers in its window.
IntakeCandidates(aid, t) ==
    CompleteBatches(ListBatchFiles(intakeBucket, aid, IntakeInterval(t)), "batch")

OwnValidated(aid, window) ==
    {b.id : b \in CompleteBatches(ListBatchFiles(ownValidationBucket, aid, window),
                                  ownValidityInfix(isFirst))}

PeerValidated(aid, window) ==
    {b.id : b \in CompleteBatches(ListBatchFiles(peerValidationBucket, aid, window),
                                  peerValidityInfix(isFirst))}

----------------------------------------------------------------------------
\* C1: a task marker is written only by the on_complete of a call whose
\* publish the broker acknowledged: every step that adds a marker takes a
\* call of that task from acknowledged to marked, and every marker in the
\* bucket belongs to a task some acknowledged call has marked.
C1_MarkerOnlyAfterConfirmedPublish ==
    /\ [](\A k \in markers :
            \E p \in Procs : \E n \in DOMAIN calls[p] :
                Marker(calls[p][n].task) = k /\ st[p][n] = "marked")
    /\ [][\A k \in markers' \ markers :
            \E p \in Procs : \E n \in DOMAIN calls[p] :
                /\ Marker(calls[p][n].task) = k
                /\ st[p][n] = "acked"
                /\ st'[p][n] = "marked"]_vars

\* A run in which one publish failed and another was acknowledged and
\* marked.
C1_Witness ==
    \E p \in Procs : \E n, m \in DOMAIN calls[p] :
        /\ st[p][n] = "failedDone"
        /\ st[p][m] = "marked"
        /\ Marker(calls[p][m].task) \in markers
        /\ Marker(calls[p][n].task) \notin markers

C3_EnqueuedDisjointFromListedMarkers ==
    \A p \in Procs : \A n \in DOMAIN calls[p] :
        calls[p][n].enq = "intake" => Marker(calls[p][n].task) \notin calls[p][n].listed

\* A run whose listing held a marker skipped that batch and enqueued
\* another.
C3_Witness ==
    \E p \in Procs : \E n \in DOMAIN calls[p] :
        /\ calls[p][n].enq = "intake"
        /\ calls[p][n].listed # {}
        /\ gauges[p].intakesSkippedDueToMarker > 0

C5_FailedPublishLeavesNoMarker ==
    \A p \in Procs : \A n \in DOMAIN calls[p] :
        PublishFailed(p, n) =>
            LET c == calls[p][n]
            IN  /\ Marker(c.task) \in markers =>
                    \E q \in Procs : \E m \in DOMAIN calls[q] :
                        /\ <<q, m>> # <<p, n>>
                        /\ SameTask(calls[q][m].task, c.task)
                        /\ st[q][m] = "marked"
                /\ \A q \in Procs :
                      (/\ q = p + 1
                       /\ SameInputs(p, q)
                       /\ PastEnqueue(q, c.task.kind, c.task.aid))
                        => \E m \in DOMAIN calls[q] : SameTask(calls[q][m].task, c.task)

\* A publish failed, its callback ran and left no marker, and the next run
\* has enqueued the task again.
C5_Witness ==
    \E p, q \in Procs : \E n \in DOMAIN calls[p] : \E m \in DOMAIN calls[q] :
        /\ q = p + 1
        /\ st[p][n] = "failedDone"
        /\ cb[p][n] = 1
        /\ Marker(calls[p][n].task) \notin markers
        /\ SameTask(calls[q][m].task, calls[p][n].task)

\* C6: only a written marker keeps a task from being enqueued again.  A
\* task whose call wrote no marker (the write failed, the publish failed,
\* or the process ended first) is enqueued again by the next run that
\* lists the same inputs and reaches the task's enqueue stage; and every
\* ready batch a run does not enqueue has a marker some call wrote.
C6_OnlyWrittenMarkerSuppresses ==
    /\ \A p, q \in Procs : \A n \in DOMAIN calls[p] :
          (/\ q = p + 1
           /\ pc[p] = "exited"
           /\ st[p][n] # "marked"
           /\ SameInputs(p, q)
           /\ PastEnqueue(q, calls[p][n].task.kind, calls[p][n].task.aid))
            => \E m \in DOMAIN calls[q] : SameTask(calls[q][m].task, calls[p][n].task)
    /\ \A q \in Procs : \A i \in DOMAIN aggregationIDs[q] :
          PastEnqueue(q, "intake", aggregationIDs[q][i]) =>
              \A b \in IntakeCandidates(aggregationIDs[q][i], runNow[q]) :
                  \/ \E m \in DOMAIN calls[q] : SameTask(calls[q][m].task, IntakeTask(b))
                  \/ MarkerWritten(IntakeTask(b))

\* A task was published, its marker write failed, and the next run
\* published it a second time.
C6_Witness ==
    \E p, q \in Procs : \E n \in DOMAIN calls[p] : \E m \in DOMAIN calls[q] :
        /\ q = p + 1
        /\ st[p][n] = "unmarked"
        /\ SameTask(calls[q][m].task, calls[p][n].task)
        /\ Published(q, m)

\* C7: scheduleTasks does not return, with or without an error, before
\* Stop has been awaited on both enqueuers: every return that follows a
\* submitted task has awaited them, and the process ends with no call
\* still in flight.
C7_ReturnsOnlyAfterStop ==
    \A p \in Procs :
        /\ \A i \in DOMAIN results[p] : results[p][i].submitted => results[p][i].awaited
        /\ pc[p] = "exited" => \A n \in DOMAIN calls[p] : Settled(st[p][n])

\* C8: once Stop has returned on an enqueuer, no on_complete of that
\* enqueuer runs, also when main calls scheduleTasks for several
\* aggregation IDs with the same enqueuers.
C8_NoCallbackAfterStop ==
    \A p \in Procs : stopCb[p].intake = 0 /\ stopCb[p].aggregate = 0

\* C9: on_complete runs exactly once for every Enqueue: never twice, and
\* once by the time the process has ended.
C9_CallbackExactlyOnce ==
    \A p \in Procs : \A n \in DOMAIN calls[p] :
        /\ cb[p][n] <= 1
        /\ pc[p] = "exited" => cb[p][n] = 1

----------------------------------------------------------------------------
\* Two runs at once: a run started while the one before it is still
\* going (a cron job that allows concurrent runs).  Both see the same
\* buckets at the same hour.

\* The buckets of the concurrent runs: one aggregation ID, at most one
\* batch per bucket.
ConcurrentLayouts ==
    {L \in Layouts :
        \A s \in Slots : L[s] # {} => s[2].id \in {<<"u1">>, <<"v1">>}}

InitConcurrent ==
    /\ \E L \in ConcurrentLayouts, first \in BOOLEAN : InitBuckets(L, first)
    /\ InitRuns

NextConcurrent == \E p \in Procs : StartRun(p) \/ Step(p)

SpecConcurrent == InitConcurrent /\ [][NextConcurrent]_vars

\* The markers one run without failures writes over the buckets at the
\* present hour.
SingleRunMarkers ==
    LET window == AggregationInterval(now, aggregationPeriod, gracePeriod)
        aids == ListAggregationIDs(intakeBucket)
    IN  {Marker(IntakeTask(b)) : b \in UNION {IntakeCandidates(aid, now) : aid \in aids}}
          \cup {Marker(AggregationTask(aid, window, <<>>)) :
                  aid \in {a \in aids : OwnValidated(a, window) \cap PeerValidated(a, window) # {}}}

\* C10: with two runs going at once, a run enqueues a task only if the
\* task's marker was not yet in the bucket when the run listed the markers
\* (so both runs publish a task only when the later listing came before
\* the first marker write of the task completed), and the markers in the
\* bucket are never more than a single run's, and exactly a single run's
\* once one of the runs has ended with no listing, publish or marker write
\* of it failing.
C10_DuplicatesBoundedByStaleness ==
    /\ \A p \in Procs : \A n \in DOMAIN calls[p] :
          Marker(calls[p][n].task) \notin calls[p][n].present
    /\ markers \subseteq SingleRunMarkers
    /\ (\E p \in Procs : RunClean(p)) => markers = SingleRunMarkers

\* Both runs published the same intake task and the same aggregate task,
\* both have ended, and the bucket holds a single run's markers.
C10_Witness ==
    /\ \A p \in Procs : pc[p] = "exited"
    /\ \E n1, m1 \in DOMAIN calls[1] : \E n2, m2 \in DOMAIN calls[2] :
          /\ calls[1][n1].enq = "intake"
          /\ calls[1][m1].enq = "aggregate"
          /\ SameTask(calls[1][n1].task, calls[2][n2].task)
          /\ SameTask(calls[1][m1].task, calls[2][m2].task)
          /\ st[1][n1] = "marked" /\ st[2][n2] = "marked"
          /\ st[1][m1] = "marked" /\ st[2][m2] = "marked"
    /\ markers = SingleRunMarkers

----------------------------------------------------------------------------
\* Runs that recur: the schedule starts the next run when one has ended,
\* the control thread and the workers of a run keep going, and the clock
\* may advance between runs.  Intake batches only.

RecurringLayouts ==
    {L \in Layouts : \A s \in Slots : L[s] # {} => s[1] = "intake"}

InitRecurring ==
    /\ \E L \in RecurringLayouts : InitBuckets(L, TRUE)
    /\ InitRuns

Fairness == \A p \in Procs : WF_vars(Start(p)) /\ WF_vars(Step(p))

SpecRecurring == InitRecurring /\ [][Next]_vars /\ Fairness

\* Some run found the batch ready and without a marker (and so submitted
\* its intake task).
ListedWithoutMarker(b) ==
    \E p \in Procs : \E n \in DOMAIN calls[p] : SameTask(calls[p][n].task, IntakeTask(b))

\* The batch is older than maxAge: no run lists it from now on.
AgedOut(b) == now > b.time + maxAge

\* C11 as stated: a batch some run listed without a marker is recovered by
\* a later run however many runs failed or were missed; so while it has no
\* marker it is still one the next run lists.
C11_RecoveredWhateverMissed ==
    \A b \in IntakeSlots :
        (ListedWithoutMarker(b) /\ ~MarkerWritten(IntakeTask(b)))
            => InInterval(b.time, IntakeInterval(now))

\* C11 amended: with runs recurring and failures running out, a batch some
\* run listed without a marker is eventually published and marked, unless
\* the clock first passes the batch's time by more than maxAge.
C11_RecoveredWithinMaxAge ==
    \A b \in IntakeSlots :
        ListedWithoutMarker(b) ~> (MarkerWritten(IntakeTask(b)) \/ AgedOut(b))

\* A batch whose first publish failed was published and marked by the
\* next run.
C11_Witness ==
    \E p, q \in Procs : \E n \in DOMAIN calls[p] : \E m \in DOMAIN calls[q] :
        /\ q = p + 1
        /\ calls[p][n].enq = "intake"
        /\ st[p][n] = "failedDone"
        /\ SameTask(calls[q][m].task, calls[p][n].task)
        /\ st[q][m] = "marked"

----------------------------------------------------------------------------
\* C12: a scheduleTasks error for one aggregation ID does not end the
\* loop: scheduleTasks is called for every discovered ID, in order, and a
\* run that got through its loop has a result for each; and for every ID
\* whose own call returned nil, whatever happened to the others, every
\* ready intake batch was submitted or has a written marker, every call
\* submitted for it has had its callback, and the markers its calls wrote
\* are in the bucket.
C12_FailureOfOneIDLeavesOthers ==
    \A p \in Procs :
        /\ Len(results[p]) = idx[p] - 1
        /\ \A i \in DOMAIN results[p] : results[p][i].aid = aggregationIDs[p][i]
        /\ (pc[p] = "exited" /\ exitCode[p] = 0) => Len(results[p]) = Len(aggregationIDs[p])
        /\ \A i \in DOMAIN results[p] :
              ~results[p][i].err =>
                  /\ \A b \in IntakeCandidates(results[p][i].aid, runNow[p]) :
                        \/ \E n \in DOMAIN calls[p] :
                              calls[p][n].iter = i /\ SameTask(calls[p][n].task, IntakeTask(b))
                        \/ MarkerWritten(IntakeTask(b))
                  /\ \A n \in DOMAIN calls[p] :
                        calls[p][n].iter = i =>
                            /\ Settled(st[p][n])
                            /\ st[p][n] = "marked" => Marker(calls[p][n].task) \in markers

\* A run over two aggregation IDs ended: scheduleTasks failed for the
\* first, and the second had its task published and marked.
C12_Witness ==
    \E p \in Procs :
        /\ pc[p] = "exited"
        /\ Len(results[p]) = 2
        /\ results[p][1].err
        /\ ~results[p][2].err
        /\ \E n \in DOMAIN calls[p] : calls[p][n].iter = 2 /\ st[p][n] = "marked"

----------------------------------------------------------------------------
\* The aggregation IDs whose intake stage run p has been through.
PastIntake(p) ==
    {aid \in Range(aggregationIDs[p]) : PastEnqueue(p, "intake", aid)}

\* C13: in a run, a complete batch of the intake listing whose marker is
\* in the marker listing is skipped, and any other complete batch gets
\* exactly one intake task {aggregation ID, batch ID, batch time}; a batch
\* that lacks one of its three objects gets no task and no marker; and
\* skipped plus enqueued is the number of complete batches listed.
C13_OneIntakeTaskPerUnmarkedBatch ==
    /\ \A b \in Basenames(intakeBucket, "batch") :
          ~(FilesOf(b, "batch", Kinds) \subseteq intakeBucket)
              => Marker(IntakeTask(b)) \notin markers
    /\ \A p \in Procs :
          LET listed == UNION {IntakeCandidates(aid, runNow[p]) : aid \in PastIntake(p)}
              intakeCalls == {n \in DOMAIN calls[p] : calls[p][n].enq = "intake"}
              callsFor(b) == {n \in intakeCalls : SameTask(calls[p][n].task, IntakeTask(b))}
              current == IF idx[p] \in DOMAIN aggregationIDs[p]
                         THEN {aggregationIDs[p][idx[p]]} ELSE {}
          IN  /\ \A n \in intakeCalls :
                    LET t == calls[p][n].task
                        b == [aid |-> t.aid, time |-> t.date, id |-> t.id]
                    IN  /\ b \in listed
                        /\ FilesOf(b, "batch", Kinds) \subseteq intakeBucket
              /\ \A b \in listed :
                    /\ Cardinality(callsFor(b)) <= 1
                    /\ callsFor(b) = {} => MarkerWritten(IntakeTask(b))
                    /\ b.aid \in current =>
                          (callsFor(b) = {} <=> Marker(IntakeTask(b)) \in intakeTaskMarkersSet[p])
              /\ gauges[p].intakesSkippedDueToMarker + Cardinality(intakeCalls)
                   = Cardinality(listed)

\* A run over a marked batch, an unmarked batch and a batch without its
\* signature: one skipped, one enqueued, none for the third.
C13_Witness ==
    \E p \in Procs :
        /\ gauges[p].intakesSkippedDueToMarker = 1
        /\ Cardinality({n \in DOMAIN calls[p] : calls[p][n].enq = "intake"}) = 1
        /\ \E b \in Basenames(intakeBucket, "batch") :
              ~(FilesOf(b, "batch", Kinds) \subseteq intakeBucket)
        /\ pc[p] = "exited"

----------------------------------------------------------------------------
\* Batches that arrive late: between two runs a server's facilitator
\* writes a validation batch (all three objects) into its bucket.

ArrivalLayouts ==
    {L \in Layouts :
        /\ L[<<"intake", [aid |-> A, time |-> T0, id |-> <<"u1">>]>>] = Kinds
        /\ \A s \in Slots : L[s] # {} => s[2].aid = A /\ s[2].id \in {<<"u1">>, <<"v1">>}}

InitArrivals ==
    /\ \E L \in ArrivalLayouts : InitBuckets(L, TRUE)
    /\ InitRuns

\* A validation batch is written while no run is going.
Arrive(which, b) ==
    /\ \A p \in Procs : ~Alive(p)
    /\ IF which = "own"
       THEN /\ ~(FilesOf(b, ownValidityInfix(isFirst), Kinds) \subseteq ownValidationBucket)
            /\ ownValidationBucket' =
                    ownValidationBucket \cup FilesOf(b, ownValidityInfix(isFirst), Kinds)
            /\ UNCHANGED peerValidationBucket
       ELSE /\ ~(FilesOf(b, peerValidityInfix(isFirst), Kinds) \subseteq peerValidationBucket)
            /\ peerValidationBucket' =
                    peerValidationBucket \cup FilesOf(b, peerValidityInfix(isFirst), Kinds)
            /\ UNCHANGED ownValidationBucket
    /\ UNCHANGED <<library, intakeBucket, isFirst, dryRun, markers, now, faults, pc, aggregationIDs, idx,
                   runNow, locals, enqueuers, results, gauges, exitCode>>

NextArrivals ==
    \/ \E p \in Procs : Start(p) \/ Step(p)
    \/ \E which \in {"own", "peer"}, b \in ValidationSlots : Arrive(which, b)

SpecArrivals == InitArrivals /\ [][NextArrivals]_vars

\* C14: a run whose aggregate-marker listing holds the marker of
\* (aggregation ID, window) enqueues no aggregate task for that window,
\* also when the window has more validated batches than when the marker
\* was written: no aggregate call has its marker in the listing it was
\* checked against, and a scheduleTasks call past its aggregation stage
\* with the window's marker in its listing has made no aggregate call.
C14_MarkedWindowNotEnqueued ==
    \A p \in Procs :
        /\ \A n \in DOMAIN calls[p] :
              calls[p][n].enq = "aggregate" =>
                  Marker(calls[p][n].task) \notin calls[p][n].listed
        /\ (/\ pc[p] \in {"stopIntake", "stopAggregation"}
            /\ Marker(AggregationTask(aggregationIDs[p][idx[p]],
                        AggregationInterval(runNow[p], aggregationPeriod, gracePeriod), <<>>))
                  \in aggregationTaskMarkersSet[p])
             => \A n \in DOMAIN calls[p] :
                    ~(calls[p][n].enq = "aggregate" /\ calls[p][n].iter = idx[p])

\* A run aggregated the window and wrote its marker, a batch then arrived
\* in the window at both servers, and the next run skipped the window.
C14_Witness ==
    \E p, q \in Procs : \E n \in DOMAIN calls[p] :
        /\ q = p + 1
        /\ calls[p][n].enq = "aggregate"
        /\ st[p][n] = "marked"
        /\ LET t == calls[p][n].task
               window == [Begin |-> t.start, End |-> t.end]
           IN  /\ {t.batches[i].id : i \in DOMAIN t.batches}
                    # OwnValidated(t.aid, window) \cap PeerValidated(t.aid, window)
               /\ window = AggregationInterval(runNow[q], aggregationPeriod, gracePeriod)
        /\ gauges[q].aggregationsSkippedDueToMarker = 1
        /\ calls[q] = <<>>
        /\ pc[q] = "exited"

\* C15: when the complete own-validation batches and the complete
\* peer-validation batches of the window share no batch ID (either side
\* may be empty), no aggregate task is enqueued for the window and its
\* marker is not written.
C15_NoAggregateWithoutCommonBatch ==
    \A aid \in ListAggregationIDs(intakeBucket) :
        LET window == AggregationInterval(now, aggregationPeriod, gracePeriod)
        IN  OwnValidated(aid, window) \cap PeerValidated(aid, window) = {} =>
                /\ Marker(AggregationTask(aid, window, <<>>)) \notin markers
                /\ \A p \in Procs : \A n \in DOMAIN calls[p] :
                      ~(/\ calls[p][n].enq = "aggregate"
                        /\ SameTask(calls[p][n].task, AggregationTask(aid, window, <<>>)))

\* A run went through its aggregation stage and ended while each server
\* had a validated batch of the window the other had not.
C15_Witness ==
    \E p \in Procs :
        LET window == AggregationInterval(runNow[p], aggregationPeriod, gracePeriod)
        IN  /\ pc[p] = "exited"
            /\ Len(results[p]) = 1
            /\ ~results[p][1].err
            /\ OwnValidated(A, window) # {}
            /\ PeerValidated(A, window) # {}
            /\ OwnValidated(A, window) \cap PeerValidated(A, window) = {}
            /\ \A n \in DOMAIN calls[p] : calls[p][n].enq = "intake"

----------------------------------------------------------------------------
\* Intake batches of one aggregation ID at different times, with a batch
\* both servers have validated, so that a scheduleTasks call submits
\* several intake tasks and an aggregate task.

OrderingSlots ==
    {[aid |-> A, time |-> T0, id |-> <<"u1">>],
     [aid |-> A, time |-> T0, id |-> <<"u2">>],
     [aid |-> A, time |-> T1, id |-> <<"u4">>]}

InitOrdering ==
    /\ isFirst = TRUE
    /\ dryRun = FALSE
    /\ \E S \in SUBSET OrderingSlots :
          intakeBucket = UNION {FilesOf(b, "batch", Kinds) : b \in S}
    /\ ownValidationBucket =
          FilesOf([aid |-> A, time |-> T0, id |-> <<"v1">>], ownValidityInfix(TRUE), Kinds)
    /\ peerValidationBucket =
          FilesOf([aid |-> A, time |-> T0, id |-> <<"v1">>], peerValidityInfix(TRUE), Kinds)
    /\ InitRuns

NextOrdering == \E p \in Procs : Start(p) \/ Step(p)

SpecOrdering == InitOrdering /\ [][NextOrdering]_vars

\* C16: within one scheduleTasks call the intake tasks are submitted in
\* ascending batch-time order, and no intake task is submitted after the
\* aggregate task.
C16_SubmissionOrder ==
    \A p \in Procs : \A n, m \in DOMAIN calls[p] :
        (n < m /\ calls[p][n].iter = calls[p][m].iter) =>
            /\ (calls[p][n].enq = "intake" /\ calls[p][m].enq = "intake")
                  => calls[p][n].task.date <= calls[p][m].task.date
            /\ ~(calls[p][n].enq = "aggregate" /\ calls[p][m].enq = "intake")

\* A scheduleTasks call submitted an intake task, then one of a later
\* batch, then the aggregate task.
C16_Witness ==
    \E p \in Procs : \E n, m, k \in DOMAIN calls[p] :
        /\ n < m /\ m < k
        /\ calls[p][n].enq = "intake"
        /\ calls[p][m].enq = "intake"
        /\ calls[p][n].task.date < calls[p][m].task.date
        /\ calls[p][k].enq = "aggregate"
        /\ calls[p][n].iter = calls[p][k].iter
        /\ calls[p][m].iter = calls[p][k].iter

----------------------------------------------------------------------------
\* batchpath on object keys.
\*
\* A key is the sequence of its tokens: "/" and "." are tokens of their own
\* and every other token is a maximal run of other characters, so that
\* splitting at "/" and matching a suffix that begins with "." come out as
\* they do on the characters.

\* strings.HasSuffix
HasSuffix(s, suffix) ==
    /\ Len(s) >= Len(suffix)
    /\ SubSeq(s, Len(s) - Len(suffix) + 1, Len(s)) = suffix

\* strings.TrimSuffix
TrimSuffix(s, suffix) ==
    IF HasSuffix(s, suffix) THEN SubSeq(s, 1, Len(s) - Len(suffix)) ELSE s

\* strings.Split(s, sep): the pieces between the separators, one piece (s
\* itself, possibly empty) when s holds no separator.
RECURSIVE Split(_, _)
Split(s, sep) ==
    IF \A i \in DOMAIN s : s[i] # sep
    THEN <<s>>
    ELSE LET i == CHOOSE k \in DOMAIN s :
                      s[k] = sep /\ \A j \in 1..(k - 1) : s[j] # sep
         IN <<SubSeq(s, 1, i - 1)>> \o Split(SubSeq(s, i + 1, Len(s)), sep)

\* strings.Join
RECURSIVE Join(_, _)
Join(elems, sep) ==
    IF elems = <<>> THEN <<>>
    ELSE IF Len(elems) = 1 THEN elems[1]
    ELSE elems[1] \o <<sep>> \o Join(Tail(elems), sep)

\* The decimal numerals among the tokens, with their values: those that
\* strconv.Itoa produces and one with a leading zero.
CanonicalNumerals == {<<"1", 1>>, <<"2", 2>>}

Numerals == CanonicalNumerals \cup {<<"01", 1>>, <<"13", 13>>}

\* strconv.ParseInt(c, 10, 64): the value of a component that is one
\* numeral, an error for every other component (the empty one included).
ParseInt(c) ==
    IF Len(c) = 1 /\ \E n \in Numerals : n[1] = c[1]
    THEN [err |-> FALSE, value |-> (CHOOSE n \in Numerals : n[1] = c[1])[2]]
    ELSE [err |-> TRUE, value |-> 0]

\* time.Date(year, month, day, hour, minute, 0, 0, UTC) counted in minutes;
\* months are counted as 31 days, which orders the dates of the calendar
\* as the calendar does.
Date(year, month, day, hour, minute) ==
    (((year * 12 + month) * 31 + day) * 24 + hour) * 60 + minute

\* What a call can come to: a value, a returned error, or a run-time panic.
Panic == [kind |-> "panic"]
Error == [kind |-> "error"]
Ok(v) == [kind |-> "ok", value |-> v]

\* batchpath.New
New(name) ==
    LET pathComponents == Split(name, "/")
        n == Len(pathComponents)
    IN  IF 1 > n - 1
        THEN Panic     \* pathComponents[1 : len-1] with len 1: slice bounds out of range
        ELSE
            LET batchDate == SubSeq(pathComponents, 2, n - 1)
                dateComponents == [i \in DOMAIN batchDate |-> ParseInt(batchDate[i])]
            IN  IF Len(batchDate) # 5 THEN Error
                ELSE IF \E i \in DOMAIN batchDate : dateComponents[i].err THEN Error
                ELSE Ok([AggregationID |-> pathComponents[1],
                         dateComponents |-> batchDate,
                         ID |-> pathComponents[n],
                         Time |-> Date(dateComponents[1].value, dateComponents[2].value,
                                       dateComponents[3].value, dateComponents[4].value,
                                       dateComponents[5].value),
                         metadata |-> FALSE,
                         avro |-> FALSE,
                         sig |-> FALSE])

\* A DateString that prints the parsed values of the date components.
DateStringOfValues(b) ==
    Join([i \in DOMAIN b.dateComponents |->
             <<(CHOOSE n \in CanonicalNumerals :
                    n[2] = ParseInt(b.dateComponents[i]).value)[1]>>], "/")

\* BatchPath.DateString
DateString(b) == Join(b.dateComponents, "/")

\* BatchPath.path
path(b) == Join(<<b.AggregationID, DateString(b), b.ID>>, "/")

\* The keys New is applied to: up to MaxComponents components, each empty,
\* a word or a numeral with a leading zero, joined with "/"; the empty key
\* is the one of a single empty component.
MaxComponents == 8

Components == {<<>>, <<"a">>, <<"01">>}

BatchNames ==
    UNION {{Join(cs, "/") : cs \in [1..n -> Components]} : n \in 1..MaxComponents}

InitNew ==
    /\ InitBuckets([s \in Slots |-> {}], TRUE)
    /\ InitProcess
    /\ batchName \in BatchNames
    /\ fileNames = <<>>
    /\ fileInfix = "batch"
    /\ namespace = {}
    /\ output = NoOutput

\* One call of New on the key.
CallNew ==
    /\ output = NoOutput
    /\ output' = New(batchName)
    /\ UNCHANGED <<batchName, fileNames, fileInfix, namespace, buckets, markers, now, faults, pc,
                   aggregationIDs, idx, runNow, locals, enqueuers, results, gauges,
                   exitCode>>

NextNew == CallNew

SpecNew == InitNew /\ [][NextNew]_vars

\* The key has seven components of which the five in the middle are numerals.
SevenComponentsFiveIntegers(name) ==
    /\ Cardinality({i \in DOMAIN name : name[i] = "/"}) = 6
    /\ LET slash(k) == CHOOSE i \in DOMAIN name :
                           name[i] = "/"
                           /\ Cardinality({j \in 1..i : name[j] = "/"}) = k
       IN \A k \in 1..5 :
              /\ slash(k + 1) = slash(k) + 2
              /\ \E n \in Numerals : n[1] = name[slash(k) + 1]

\* C20: New returns a BatchPath or an error on every key, the empty key and
\* the keys without "/" included, and never crashes; it returns a BatchPath
\* exactly when the key has seven components whose five middle ones are
\* decimal integers.
C20_NewTotalOnEveryKey ==
    output # NoOutput =>
        /\ output.kind \in {"ok", "error"}
        /\ output.kind = "ok" <=> SevenComponentsFiveIntegers(batchName)

\* C21: for every key New accepts, path() of the BatchPath is the key, and
\* New of that path is an equal BatchPath (aggregation ID, date components,
\* batch ID and time).
C21_ParseFormatRoundTrip ==
    output.kind = "ok" =>
        /\ path(output.value) = batchName
        /\ New(path(output.value)) = output

\* New accepted a key with a date component that is not in canonical form.
C21_Witness ==
    /\ output.kind = "ok"
    /\ \E i \in DOMAIN output.value.dateComponents :
          output.value.dateComponents[i] = <<"01">>

----------------------------------------------------------------------------
\* ReadyBatches on object keys.

\* fmt.Sprintf(".%s", infix), ".%s.avro" and ".%s.sig"
MetadataSuffix(inf) == <<".", inf>>
AvroSuffix(inf) == <<".", inf, ".", "avro">>
SigSuffix(inf) == <<".", inf, ".", "sig">>

\* basename: the three suffixes trimmed one after the other.
basename(s, inf) ==
    LET s1 == TrimSuffix(s, MetadataSuffix(inf))
        s2 == TrimSuffix(s1, AvroSuffix(inf))
        s3 == TrimSuffix(s2, SigSuffix(inf))
    IN  s3

\* BatchPath.isComplete
BatchPathIsComplete(b) == b.metadata /\ b.avro /\ b.sig

\* List.Less on BatchPaths: Time.Before.
BatchPathLess(a, b) == a.Time < b.Time

\* The first loop of ReadyBatches: the map from basename to BatchPath after
\* the files were gone through in order, or the error or panic of the first
\* New that failed.
RECURSIVE CollectBatches(_, _, _)
CollectBatches(fs, inf, batches) ==
    IF fs = <<>> THEN Ok(batches)
    ELSE
        LET name == Head(fs)
            base == basename(name, inf)
            made == IF base \in DOMAIN batches THEN Ok(batches[base]) ELSE New(base)
        IN  IF made.kind # "ok" THEN made
            ELSE
                LET b == [made.value EXCEPT
                             !.metadata = @ \/ HasSuffix(name, MetadataSuffix(inf)),
                             !.avro = @ \/ HasSuffix(name, AvroSuffix(inf)),
                             !.sig = @ \/ HasSuffix(name, SigSuffix(inf))]
                IN  CollectBatches(Tail(fs), inf,
                        [k \in DOMAIN batches \cup {base} |->
                            IF k = base THEN b ELSE batches[k]])

\* ReadyBatches: what a call can return. The complete batches are taken
\* from the map in no fixed order and sorted with sort.Sort by Less, which
\* leaves batches of equal time in the order it met them.
ReadyBatchesOfKeys(fs, inf) ==
    LET collected == CollectBatches(fs, inf, <<>>)
    IN  IF collected.kind # "ok" THEN {collected}
        ELSE
            LET batches == collected.value
                complete == {batches[k] : k \in {k \in DOMAIN batches :
                                                    BatchPathIsComplete(batches[k])}}
            IN  {Ok(s) : s \in {s \in SeqsOf(complete) :
                                   \A i, j \in DOMAIN s : i < j => ~BatchPathLess(s[j], s[i])}}

\* The keys of the listings: three batches of one aggregation ID, u1 and u2
\* of the same minute and u3 of the next one, with the files of the infix
\* "batch"; u1 with the files of the infix "validity_0" as well; the three
\* files of a batch named after u1's packet file (u1.batch.avro); a key
\* without date and a key without "/".
Minute1 == <<"a", "/", "1", "/", "1", "/", "1", "/", "1", "/", "1", "/">>
Minute2 == <<"a", "/", "1", "/", "1", "/", "1", "/", "1", "/", "2", "/">>

Keys ==
    << Minute1 \o <<"u1">> \o MetadataSuffix("batch"),
       Minute1 \o <<"u1">> \o AvroSuffix("batch"),
       Minute1 \o <<"u1">> \o AvroSuffix("batch") \o MetadataSuffix("batch"),
       Minute1 \o <<"u1">> \o AvroSuffix("batch") \o AvroSuffix("batch"),
       Minute1 \o <<"u1">> \o AvroSuffix("batch") \o SigSuffix("batch"),
       Minute1 \o <<"u1">> \o SigSuffix("batch"),
       Minute1 \o <<"u1">> \o MetadataSuffix("validity_0"),
       Minute1 \o <<"u1">> \o AvroSuffix("validity_0"),
       Minute1 \o <<"u1">> \o SigSuffix("validity_0"),
       Minute1 \o <<"u2">> \o MetadataSuffix("batch"),
       Minute1 \o <<"u2">> \o AvroSuffix("batch"),
       Minute1 \o <<"u2">> \o SigSuffix("batch"),
       Minute2 \o <<"u3">> \o MetadataSuffix("batch"),
       Minute2 \o <<"u3">> \o AvroSuffix("batch"),
       Minute2 \o <<"u3">> \o SigSuffix("batch"),
       <<"a", "/", "u4">> \o MetadataSuffix("batch"),
       <<"u5">> \o MetadataSuffix("batch") >>

MaxFiles == 6

\* The keys at the positions I, in the order of the listing.
Listing(I) ==
    [k \in 1..Cardinality(I) |->
        Keys[CHOOSE i \in I : Cardinality({j \in I : j < i}) = k - 1]]

Listings == {Listing(I) : I \in {I \in SUBSET DOMAIN Keys : Cardinality(I) <= MaxFiles}}

InitReadyBatches ==
    /\ InitBuckets([s \in Slots |-> {}], TRUE)
    /\ InitProcess
    /\ batchName = <<>>
    /\ fileNames \in Listings
    /\ fileInfix \in {"batch", "validity_0"}
    /\ namespace = {}
    /\ output = NoOutput

\* One call of ReadyBatches on the listing.
CallReadyBatches ==
    /\ output = NoOutput
    /\ output' \in ReadyBatchesOfKeys(fileNames, fileInfix)
    /\ UNCHANGED <<batchName, fileNames, fileInfix, namespace, buckets, markers, now, faults, pc,
                   aggregationIDs, idx, runNow, locals, enqueuers, results, gauges,
                   exitCode>>

NextReadyBatches == CallReadyBatches

SpecReadyBatches == InitReadyBatches /\ [][NextReadyBatches]_vars

\* C17: every batch ReadyBatches returns has its three keys <base>.<infix>,
\* <base>.<infix>.avro and <base>.<infix>.sig in the input, so that keys of
\* another infix never complete a batch.
C17_ReturnedBatchesHaveThreeKeys ==
    output.kind = "ok" =>
        \A i \in DOMAIN output.value :
            \A suffix \in {MetadataSuffix(fileInfix), AvroSuffix(fileInfix),
                           SigSuffix(fileInfix)} :
                path(output.value[i]) \o suffix \in Range(fileNames)

\* The tokens of the keys in the order of their strings.
Alphabet == <<".", "/", "1", "2", "a", "avro", "batch", "sig",
              "u1", "u2", "u3", "u4", "u5", "validity_0">>

TokenRank(t) == CHOOSE i \in DOMAIN Alphabet : Alphabet[i] = t

\* String order: x comes before y.
RECURSIVE StringBefore(_, _)
StringBefore(x, y) ==
    IF y = <<>> THEN FALSE
    ELSE IF x = <<>> THEN TRUE
    ELSE IF Head(x) # Head(y) THEN TokenRank(Head(x)) < TokenRank(Head(y))
    ELSE StringBefore(Tail(x), Tail(y))

\* C18: the batches ReadyBatches returns are in ascending order of time,
\* and those of equal time in the string order of their batch IDs.
C18_SortedByTimeThenID ==
    output.kind = "ok" =>
        \A i, j \in DOMAIN output.value :
            i < j =>
                \/ output.value[i].Time < output.value[j].Time
                \/ /\ output.value[i].Time = output.value[j].Time
                   /\ StringBefore(output.value[i].ID, output.value[j].ID)

----------------------------------------------------------------------------
\* Two runs at the same clock reading over the same buckets.

\* Two intake batches of the same time under one aggregation ID, each
\* complete, begun or absent; two validation batches of the same time in
\* the window, either or both validated by each server.
RepeatedIntakeSlots ==
    {[aid |-> A, time |-> T0, id |-> <<"u1">>],
     [aid |-> A, time |-> T0, id |-> <<"u2">>]}

RepeatedValidationSlots ==
    {[aid |-> A, time |-> T0, id |-> <<"v1">>],
     [aid |-> A, time |-> T0, id |-> <<"v2">>]}

InitRepeated ==
    /\ isFirst = TRUE
    /\ dryRun = FALSE
    /\ \E L \in [RepeatedIntakeSlots -> {{}, {"meta"}, Kinds}] :
          intakeBucket = UNION {FilesOf(b, "batch", L[b]) : b \in RepeatedIntakeSlots}
    /\ \E S \in SUBSET RepeatedValidationSlots :
          ownValidationBucket =
              UNION {FilesOf(b, ownValidityInfix(TRUE), Kinds) : b \in S}
    /\ \E S \in SUBSET RepeatedValidationSlots :
          peerValidationBucket =
              UNION {FilesOf(b, peerValidityInfix(TRUE), Kinds) : b \in S}
    /\ InitRuns

\* The clock does not advance between the runs.
NextRepeated == \E p \in Procs : Start(p) \/ Step(p)

SpecRepeated == InitRepeated /\ [][NextRepeated]_vars

\* The tasks run p submitted to the enqueuer, in the order of submission.
RECURSIVE TasksOf(_, _)
TasksOf(cs, enq) ==
    IF cs = <<>> THEN <<>>
    ELSE (IF Head(cs).enq = enq THEN <<Head(cs).task>> ELSE <<>>) \o TasksOf(Tail(cs), enq)

\* C19: two runs that read the same clock and list the same keys and the
\* same markers submit the same intake tasks in the same order and an
\* aggregate task with the same batch list in the same order, batches of
\* the same minute included.
C19_SameListingsSameSubmissions ==
    \A p, q \in Procs :
        runNow[p] = runNow[q] =>
            /\ ( /\ PastEnqueue(p, "intake", A)
                 /\ PastEnqueue(q, "intake", A)
                 /\ markersAtListing[p].intake = markersAtListing[q].intake )
                  => TasksOf(calls[p], "intake") = TasksOf(calls[q], "intake")
            /\ ( /\ PastEnqueue(p, "aggregate", A)
                 /\ PastEnqueue(q, "aggregate", A)
                 /\ markersAtListing[p].aggregate = markersAtListing[q].aggregate )
                  => TasksOf(calls[p], "aggregate") = TasksOf(calls[q], "aggregate")

----------------------------------------------------------------------------
\* C22: a key of the listing with an unknown suffix, or one that cannot be
\* parsed, is skipped and is no error: ReadyBatches returns the complete
\* batches that the other keys form.
C22_BadKeysSkipped ==
    output # NoOutput =>
        /\ output.kind = "ok"
        /\ \A k \in Range(fileNames) :
              LET base == basename(k, fileInfix)
              IN  ( /\ New(base).kind = "ok"
                    /\ \A suffix \in {MetadataSuffix(fileInfix), AvroSuffix(fileInfix),
                                      SigSuffix(fileInfix)} :
                          base \o suffix \in Range(fileNames) )
                      => \E i \in DOMAIN output.value : path(output.value[i]) = base

----------------------------------------------------------------------------
\* C23: the aggregation interval of a run has the length of the
\* aggregation period, begins and ends at multiples of the period, and
\* ended at least the grace period before the run's clock reading; no
\* aggregate task is enqueued for a window that has not ended that long ago.
C23_WindowEndedBeforeGrace ==
    \A p \in Procs : \A n \in DOMAIN calls[p] :
        calls[p][n].enq = "aggregate" =>
            LET t == calls[p][n].task
            IN  /\ t.end = t.start + aggregationPeriod
                /\ t.start % aggregationPeriod = 0
                /\ t.end + gracePeriod <= runNow[p]

----------------------------------------------------------------------------
\* wftime.AggregationInterval at two clock readings.

MaxClock == 12

Periods == {2, 3}
Graces == {0, 1}

InitWindows ==
    /\ InitBuckets([s \in Slots |-> {}], TRUE)
    /\ InitProcess
    /\ batchName = <<>>
    /\ fileNames = <<>>
    /\ fileInfix = "batch"
    /\ namespace = {}
    /\ output = Ok(<<>>)

\* A process reads its clock and computes the aggregation interval and the
\* marker key of the aggregate task, as scheduleTasks and
\* enqueueAggregationTask do; a second process does so with the same
\* periods.
ComputeWindow(t, period, grace) ==
    /\ output.kind = "ok"
    /\ Len(output.value) < 2
    /\ \A i \in DOMAIN output.value :
          output.value[i].period = period /\ output.value[i].grace = grace
    /\ LET aggInterval == AggregationInterval(t, period, grace)
       IN  output' = Ok(Append(output.value,
                        [clock |-> t, period |-> period, grace |-> grace,
                         interval |-> aggInterval,
                         marker |-> Marker(AggregationTask(A, aggInterval, <<>>))]))
    /\ UNCHANGED <<batchName, fileNames, fileInfix, namespace, buckets, markers, now, faults, pc,
                   aggregationIDs, idx, runNow, locals, enqueuers, results, gauges,
                   exitCode>>

NextWindows ==
    \E t \in 1..MaxClock : \E period \in Periods : \E grace \in Graces :
        ComputeWindow(t, period, grace)

SpecWindows == InitWindows /\ [][NextWindows]_vars

\* C24 as stated: two clock readings less than one aggregation period
\* apart (same period, same grace period) give the same aggregation
\* interval and the same aggregate marker key.
C24_SameWindowWithinOnePeriod ==
    \A i, j \in DOMAIN output.value :
        LET x == output.value[i]
            y == output.value[j]
        IN  (x.clock <= y.clock /\ y.clock - x.clock < x.period)
                => x.interval = y.interval /\ x.marker = y.marker

\* C24 amended: two clock readings give the same aggregation interval
\* exactly when the later reading less the grace period still lies in the
\* window of the earlier one; the marker keys are equal exactly when the
\* intervals are; and readings less than one period apart give the same
\* window or the next one.
C24_SameWindowWithinSameSlot ==
    \A i, j \in DOMAIN output.value :
        LET x == output.value[i]
            y == output.value[j]
        IN  x.clock <= y.clock =>
                /\ x.interval = y.interval
                      <=> InInterval(y.clock - y.grace, x.interval)
                /\ x.marker = y.marker <=> x.interval = y.interval
                /\ y.clock - x.clock < x.period
                      => y.interval.Begin \in {x.interval.Begin, x.interval.End}

\* Two different readings less than a period apart gave the same window
\* and the same marker key.
C24_Witness ==
    /\ output.kind = "ok"
    /\ Len(output.value) = 2
    /\ output.value[1].clock < output.value[2].clock
    /\ output.value[2].clock - output.value[1].clock < output.value[1].period
    /\ output.value[1].interval = output.value[2].interval
    /\ output.value[1].marker = output.value[2].marker

----------------------------------------------------------------------------
\* C25: no step of a run creates, changes or deletes a batch object of the
\* intake, own-validation or peer-validation bucket, and none deletes a
\* task marker: the marker set only grows, and what a step writes is the
\* marker of a task that the run enqueued.
C25_BucketsReadOnlyMarkersGrow ==
    [][ /\ intakeBucket' = intakeBucket
        /\ ownValidationBucket' = ownValidationBucket
        /\ peerValidationBucket' = peerValidationBucket
        /\ markers \subseteq markers'
        /\ \A k \in markers' \ markers :
              \E p \in Procs : \E n \in DOMAIN calls[p] : Marker(calls[p][n].task) = k
      ]_vars

\* A run wrote a marker into a bucket that already held another one.
C25_Witness ==
    /\ Cardinality(markers) >= 2
    /\ intakeBucket # {}
    /\ ownValidationBucket # {}
    /\ \E p \in Procs : \E n \in DOMAIN calls[p] : st[p][n] = "marked"

----------------------------------------------------------------------------
\* Runs in dry-run mode.

InitDryRun ==
    /\ isFirst = TRUE
    /\ dryRun = TRUE
    /\ \E S \in SUBSET OrderingSlots :
          intakeBucket = UNION {FilesOf(b, "batch", Kinds) : b \in S}
    /\ ownValidationBucket =
          FilesOf([aid |-> A, time |-> T0, id |-> <<"v1">>], ownValidityInfix(TRUE), Kinds)
    /\ peerValidationBucket =
          FilesOf([aid |-> A, time |-> T0, id |-> <<"v1">>], peerValidityInfix(TRUE), Kinds)
    /\ InitRuns

NextDryRun == \E p \in Procs : Start(p) \/ Step(p)

SpecDryRun == InitDryRun /\ [][NextDryRun]_vars

\* C26: in dry-run mode no run creates a marker object, so the marker set
\* of the bucket stays as it was after any number of runs, while the
\* listings return what the buckets hold: a run that got through its intake
\* listing has an intake task for every complete batch of the bucket.
C26_DryRunWritesNoMarker ==
    /\ markers = {}
    /\ \A p \in Procs : \A aid \in PastIntake(p) :
          \A b \in IntakeCandidates(aid, runNow[p]) :
              \E n \in DOMAIN calls[p] : SameTask(calls[p][n].task, IntakeTask(b))

\* Two dry runs have each enqueued the task of the same batch, and the
\* callbacks of both took their marker write for done.
C26_Witness ==
    /\ dryRun
    /\ \E n \in DOMAIN calls[1] : \E m \in DOMAIN calls[2] :
          /\ SameTask(calls[1][n].task, calls[2][m].task)
          /\ st[1][n] = "marked"
          /\ st[2][m] = "marked"

----------------------------------------------------------------------------
\* How often run p has set workflow_manager_last_success_seconds: main sets
\* it in the body of the loop, after each return of scheduleTasks.
workflowManagerLastSuccessSets(p) == Len(results[p])

\* C27: workflow_manager_last_success_seconds is set exactly once per run,
\* after the loop over all aggregation IDs is over, also when there is no
\* aggregation ID: not while the loop is running, and once in every run
\* that got past the discovery of the aggregation IDs.
C27_LastSuccessOncePerRun ==
    \A p \in Procs :
        /\ (pc[p] \notin {"idle", "exited"}) => workflowManagerLastSuccessSets(p) = 0
        /\ (pc[p] = "exited" /\ exitCode[p] = 0) => workflowManagerLastSuccessSets(p) = 1

----------------------------------------------------------------------------
\* C28: with a push gateway configured the gauges are pushed on every exit
\* of the process, the exits through fail() included, so that the
\* last_failure value fail() has set reaches the gateway.
C28_GaugesPushedOnEveryExit ==
    \A p \in Procs : pc[p] = "exited" => gauges[p].pushes = 1

----------------------------------------------------------------------------
\* C29: an error scheduleTasks returns for an aggregation ID neither sets
\* last_failure nor changes the exit: the loop goes through the remaining
\* aggregation IDs and the process ends normally with exit code 0.  The
\* process exits non-zero only through a fatal error before the loop, and
\* such a run has enqueued no task and written no marker.
C29_PerIDErrorKeepsExitCode ==
    \A p \in Procs :
        /\ (\E i \in DOMAIN results[p] : results[p][i].err)
              => gauges[p].lastFailure = 0 /\ exitCode[p] = 0
        /\ (pc[p] = "exited" /\ results[p] # <<>>)
              => /\ exitCode[p] = 0
                 /\ Len(results[p]) = Len(aggregationIDs[p])
                 /\ gauges[p].pushes = 1
        /\ exitCode[p] # 0
              => /\ pc[p] = "exited"
                 /\ gauges[p].lastFailure = 1
                 /\ results[p] = <<>>
                 /\ calls[p] = <<>>

\* A run ended with exit code 0 after scheduleTasks failed for its first
\* aggregation ID and returned nil for the second.
C29_Witness ==
    \E p \in Procs :
        /\ pc[p] = "exited"
        /\ exitCode[p] = 0
        /\ Len(results[p]) = 2
        /\ results[p][1].err
        /\ ~results[p][2].err

----------------------------------------------------------------------------
\* C30: in both roles the own-validation infix is validity_0 for the first
\* server and validity_1 for the other, and the peer-validation infix is
\* the opposite one: the two differ, and the own infix of the first server
\* is the peer infix of the second.  The batches a run takes for validated
\* by itself and by its peer are those whose objects carry these infixes.
C30_ValidityInfixByRole ==
    LET own == IF isFirst THEN "validity_0" ELSE "validity_1"
        peer == IF isFirst THEN "validity_1" ELSE "validity_0"
    IN  /\ ownValidityInfix(isFirst) = own
        /\ peerValidityInfix(isFirst) = peer
        /\ ownValidityInfix(isFirst) # peerValidityInfix(isFirst)
        /\ ownValidityInfix(TRUE) = peerValidityInfix(FALSE)
        /\ ownValidityInfix(FALSE) = peerValidityInfix(TRUE)
        /\ \A p \in Procs :
              /\ \A i \in DOMAIN ownValidationBatches[p] :
                    FilesOf(ownValidationBatches[p][i], own, Kinds)
                        \subseteq ownValidationBucket
              /\ \A i \in DOMAIN aggregationBatches[p] :
                    FilesOf(aggregationBatches[p][i], peer, Kinds)
                        \subseteq peerValidationBucket

\* A run of the second server found a batch validated by itself and by
\* its peer.
C30_Witness ==
    /\ ~isFirst
    /\ \E p \in Procs : ownValidationBatches[p] # <<>> /\ aggregationBatches[p] # <<>>

----------------------------------------------------------------------------
\* C31: in one run of the process Enqueue is never called on an enqueuer
\* on which Stop has been called: whatever the number of aggregation IDs,
\* each enqueuer sees its Enqueue calls and then a single Stop.
C31_NoEnqueueAfterStop ==
    \A p \in Procs :
        /\ stops[p].intake <= 1
        /\ stops[p].aggregate <= 1
        /\ \A n \in DOMAIN calls[p] : \A j \in DOMAIN results[p] :
              j < calls[p][n].iter => ~results[p][j].awaited

----------------------------------------------------------------------------
\* The batch ID is in the batch list of an aggregate task for the window
\* of the aggregation ID that was handed to the enqueuer and published.
IncludedInAggregate(aid, window, id) ==
    \E p \in Procs : \E n \in DOMAIN calls[p] :
        /\ calls[p][n].enq = "aggregate"
        /\ SameTask(calls[p][n].task, AggregationTask(aid, window, <<>>))
        /\ Published(p, n)
        /\ \E i \in DOMAIN calls[p][n].task.batches : calls[p][n].task.batches[i].id = id

\* The window of the clock reading, and the batch IDs validated by both
\* servers in it.
CurrentWindow == AggregationInterval(now, aggregationPeriod, gracePeriod)

ValidatedByBoth(aid, window) == OwnValidated(aid, window) \cap PeerValidated(aid, window)

\* C32 as stated: every batch with complete validations in both buckets
\* and a time inside a window is in the batch list of an aggregate task
\* published for the window, also when its validations appeared after a
\* run wrote the window's marker: once the marker is written, no validated
\* batch of the window is left out.
C32_LateBatchesAggregated ==
    MarkerWritten(AggregationTask(A, CurrentWindow, <<>>)) =>
        \A id \in ValidatedByBoth(A, CurrentWindow) :
            IncludedInAggregate(A, CurrentWindow, id)

\* C32 amended: the aggregate task a run enqueues for a window lists every
\* batch validated by both servers in the window at the time of the run,
\* and a batch that is validated by both only after the window's marker
\* was written is never included in an aggregate task.
C32_OnlyBatchesListedBeforeMarker ==
    /\ [](\A p \in Procs : \A n \in DOMAIN calls[p] :
            (Alive(p) /\ calls[p][n].enq = "aggregate") =>
                LET t == calls[p][n].task
                IN  ValidatedByBoth(t.aid, [Begin |-> t.start, End |-> t.end])
                        \subseteq {t.batches[i].id : i \in DOMAIN t.batches})
    /\ [][\A id \in ValidatedByBoth(A, CurrentWindow) :
            ( /\ MarkerWritten(AggregationTask(A, CurrentWindow, <<>>))
              /\ ~IncludedInAggregate(A, CurrentWindow, id) )
                => ~IncludedInAggregate(A, CurrentWindow, id)']_vars

\* The window's marker is written, a batch validated by both servers since
\* is in no aggregate task, and the run after has skipped the window.
C32_Witness ==
    /\ MarkerWritten(AggregationTask(A, CurrentWindow, <<>>))
    /\ \E id \in ValidatedByBoth(A, CurrentWindow) :
          ~IncludedInAggregate(A, CurrentWindow, id)
    /\ gauges[2].aggregationsSkippedDueToMarker = 1
    /\ pc[2] = "exited"

----------------------------------------------------------------------------
\* One batch ID under two minute paths.  ReadyBatches keys its map by the
\* whole object key less the suffix, so the two are two batches.
SameIDIntakeSlots ==
    {[aid |-> A, time |-> T0, id |-> <<"u1">>],
     [aid |-> A, time |-> T1, id |-> <<"u1">>]}

InitSameID ==
    /\ isFirst = TRUE
    /\ dryRun = FALSE
    /\ \E S \in SUBSET SameIDIntakeSlots :
          intakeBucket = UNION {FilesOf(b, "batch", Kinds) : b \in S}
    /\ \E S \in SUBSET RepeatedValidationSlots :
          ownValidationBucket =
              UNION {FilesOf(b, ownValidityInfix(TRUE), Kinds) : b \in S}
    /\ \E S \in SUBSET RepeatedValidationSlots :
          peerValidationBucket =
              UNION {FilesOf(b, peerValidityInfix(TRUE), Kinds) : b \in S}
    /\ InitRuns

NextSameID == \E p \in Procs : Start(p) \/ Step(p)

SpecSameID == InitSameID /\ [][NextSameID]_vars

\* C33: within one run no two enqueued intake tasks have the same marker
\* key, also when the listing holds one batch ID under two minute paths.
C33_IntakeMarkerKeysDistinctInRun ==
    \A p \in Procs : \A n, m \in DOMAIN calls[p] :
        ( /\ n # m
          /\ calls[p][n].enq = "intake"
          /\ calls[p][m].enq = "intake" )
            => Marker(calls[p][n].task) # Marker(calls[p][m].task)

----------------------------------------------------------------------------
\* An aggregation ID that extends another by a dash ("a" and "a-b"), and a
\* batch under the shorter ID whose ID starts with the extension.  New
\* takes whatever stands between the last "/" and the suffix as the ID.
DashedIntakeSlots ==
    {[aid |-> A, time |-> T0, id |-> <<"b", "u1">>],
     [aid |-> B, time |-> T0, id |-> <<"u1">>]}

InitDashed ==
    /\ isFirst = TRUE
    /\ dryRun = FALSE
    /\ \E S \in SUBSET DashedIntakeSlots :
          intakeBucket = UNION {FilesOf(b, "batch", Kinds) : b \in S}
    /\ \E S \in SUBSET RepeatedValidationSlots :
          ownValidationBucket =
              UNION {FilesOf(b, ownValidityInfix(TRUE), Kinds) : b \in S}
    /\ \E S \in SUBSET RepeatedValidationSlots :
          peerValidationBucket =
              UNION {FilesOf(b, peerValidityInfix(TRUE), Kinds) : b \in S}
    /\ InitRuns

NextDashed == \E p \in Procs : Start(p) \/ Step(p)

SpecDashed == InitDashed /\ [][NextDashed]_vars

\* C34: a marker written for one aggregation ID never makes a run skip a
\* task of another aggregation ID, also when one ID extends the other by
\* a dash: a ready batch that a run passed over without an intake task has
\* a marker written for that very (aggregation ID, batch ID), and the
\* aggregate marker keys of two aggregation IDs for one window differ.
C34_NoSkipAcrossAggregationIDs ==
    /\ \A p \in Procs : \A aid \in PastIntake(p) :
          \A b \in IntakeCandidates(aid, runNow[p]) :
              (\A n \in DOMAIN calls[p] :
                    ~(calls[p][n].enq = "intake" /\ SameTask(calls[p][n].task, IntakeTask(b))))
                => MarkerWritten(IntakeTask(b))
    /\ \A aid1, aid2 \in ListAggregationIDs(intakeBucket) :
          aid1 # aid2 =>
              Marker(AggregationTask(aid1, CurrentWindow, <<>>))
                # Marker(AggregationTask(aid2, CurrentWindow, <<>>))

----------------------------------------------------------------------------
\* The date a task carries.  wftime.Timestamp(batch.Time) is a conversion
\* of type: the task holds the instant New computed with time.Date.

\* The calendar fields of an instant: time.Date normalises its arguments,
\* so month 13 of a year is January of the next.
CalendarFields(t) ==
    LET minute == t % 60
        hour == (t \div 60) % 24
        days == t \div (24 * 60)
        day == ((days - 1) % 31) + 1
        months == (days - day) \div 31
        month == ((months - 1) % 12) + 1
        year == (months - month) \div 12
    IN  <<year, month, day, hour, minute>>

\* Keys that New accepts: date components with and without a leading zero
\* and a 13, which is a day, an hour and a minute but not a month.
DateComponents == {"1", "01", "13"}

DatedKeys ==
    {Join(<<A>> \o [i \in 1..5 |-> <<cs[i]>>] \o <<(<<"u1">>)>>, "/") :
        cs \in [1..5 -> DateComponents]}

InitTaskDates ==
    /\ InitBuckets([s \in Slots |-> {}], TRUE)
    /\ InitProcess
    /\ batchName \in DatedKeys
    /\ fileNames = <<>>
    /\ fileInfix = "batch"
    /\ namespace = {}
    /\ output = NoOutput

\* enqueueIntakeTasks: the intake task of the batch of the key.
MakeIntakeTask ==
    /\ output = NoOutput
    /\ New(batchName).kind = "ok"
    /\ LET batch == New(batchName).value
       IN  output' = Ok([kind |-> "intake", AggregationID |-> batch.AggregationID,
                         BatchID |-> batch.ID, Date |-> batch.Time])
    /\ UNCHANGED <<batchName, fileNames, fileInfix, namespace, buckets, markers, now, faults, pc,
                   aggregationIDs, idx, runNow, locals, enqueuers, results, gauges,
                   exitCode>>

\* enqueueAggregationTask: the entry of the batch of the key in the batch
\* list of an aggregate task.
MakeAggregationBatch ==
    /\ output = NoOutput
    /\ New(batchName).kind = "ok"
    /\ LET batchPath == New(batchName).value
       IN  output' = Ok([kind |-> "batch", ID |-> batchPath.ID, Time |-> batchPath.Time])
    /\ UNCHANGED <<batchName, fileNames, fileInfix, namespace, buckets, markers, now, faults, pc,
                   aggregationIDs, idx, runNow, locals, enqueuers, results, gauges,
                   exitCode>>

NextTaskDates == MakeIntakeTask \/ MakeAggregationBatch

SpecTaskDates == InitTaskDates /\ [][NextTaskDates]_vars

\* C35: the date of an intake task and the time of a batch of an aggregate
\* task have the year, month, day, hour and minute that the date
\* components of the batch's key spell, for every key New accepts, with
\* or without leading zeros and in or out of the range of the calendar.
C35_TaskDateIsKeyDate ==
    output.kind = "ok" =>
        LET batchDate == SubSeq(Split(batchName, "/"), 2, 6)
            spelled == [i \in 1..5 |-> ParseInt(batchDate[i]).value]
        IN  CalendarFields(IF output.value.kind = "intake"
                           THEN output.value.Date
                           ELSE output.value.Time) = spelled

----------------------------------------------------------------------------
\* C36: the scheduled-task gauges count exactly the tasks whose publish
\* and whose marker write both succeeded: in every run intakesStarted is
\* the number of intake calls, and aggregationsStarted the number of
\* aggregate calls, that ended with the marker written, and neither is
\* incremented after a failed publish or a failed marker write.
C36_StartedGaugesCountMarkedTasks ==
    \A p \in Procs :
        /\ gauges[p].intakesStarted =
              Cardinality({n \in DOMAIN calls[p] :
                              calls[p][n].enq = "intake" /\ st[p][n] = "marked"})
        /\ gauges[p].aggregationsStarted =
              Cardinality({n \in DOMAIN calls[p] :
                              calls[p][n].enq = "aggregate" /\ st[p][n] = "marked"})

----------------------------------------------------------------------------
\* C37: when every key of the listing is one New accepts, ReadyBatches
\* returns a list in which every batch whose three keys <base>.<infix>,
\* <base>.<infix>.avro and <base>.<infix>.sig are all in the listing
\* appears exactly once, whatever other keys are listed with them.
C37_EveryCompleteBatchOnce ==
    (output # NoOutput /\ \A k \in Range(fileNames) : New(k).kind = "ok") =>
        /\ output.kind = "ok"
        /\ \A k \in Range(fileNames) :
              LET base == TrimSuffix(k, MetadataSuffix(fileInfix))
              IN  ( /\ HasSuffix(k, MetadataSuffix(fileInfix))
                    /\ base \o AvroSuffix(fileInfix) \in Range(fileNames)
                    /\ base \o SigSuffix(fileInfix) \in Range(fileNames) )
                      => Cardinality({i \in DOMAIN output.value :
                                         path(output.value[i]) = base}) = 1

----------------------------------------------------------------------------
\* enqueueAggregationTask on any list of batches: a run for aggregation ID
\* "a" stands at the call with a list of up to MaxListed batches, of its
\* own aggregation ID or of another, and the window's marker written or
\* not.
MaxListed == 2

ListedBatches ==
    {[aid |-> A, time |-> T0, id |-> <<"v1">>],
     [aid |-> A, time |-> T0 - 1, id |-> <<"v2">>],
     [aid |-> B, time |-> T0, id |-> <<"v3">>]}

InitEnqueueAggregation ==
    /\ InitBuckets([s \in Slots |-> {}], TRUE)
    /\ IdleLibrary
    /\ now = InitNow
    /\ markers \in {{}, {Marker(AggregationTask(A, CurrentWindow, <<>>))}}
    /\ faults = 0
    /\ pc = [p \in Procs |-> IF p = 1 THEN "aggregation" ELSE "idle"]
    /\ aggregationIDs = [p \in Procs |-> IF p = 1 THEN <<A>> ELSE <<>>]
    /\ idx = [p \in Procs |-> 1]
    /\ runNow = [p \in Procs |-> IF p = 1 THEN InitNow ELSE 0]
    /\ intakeBatches = [p \in Procs |-> <<>>]
    /\ intakeTaskMarkersSet = [p \in Procs |-> {}]
    /\ ownValidationBatches = [p \in Procs |-> <<>>]
    /\ \E S \in SUBSET ListedBatches : \E bs \in SeqsOf(S) :
          /\ Len(bs) <= MaxListed
          /\ aggregationBatches = [p \in Procs |-> IF p = 1 THEN bs ELSE <<>>]
    /\ aggregationTaskMarkersSet = [p \in Procs |-> {}]
    /\ markersAtListing = [p \in Procs |-> [intake |-> {}, aggregate |-> {}]]
    /\ calls = [p \in Procs |-> <<>>]
    /\ st = [p \in Procs |-> <<>>]
    /\ cb = [p \in Procs |-> <<>>]
    /\ stops = [p \in Procs |-> [intake |-> 0, aggregate |-> 0]]
    /\ stopCb = [p \in Procs |-> [intake |-> 0, aggregate |-> 0]]
    /\ results = [p \in Procs |-> <<>>]
    /\ gauges = [p \in Procs |-> NoGauges]
    /\ exitCode = [p \in Procs |-> 0]

NextEnqueueAggregation ==
    \E p \in Procs :
        \/ AggregationStage(p)
        \/ StopIntake(p)
        \/ StopAggregation(p)
        \/ Exit(p)
        \/ \E n \in 1..(MaxBatches + 1) : Publish(p, n) \/ OnComplete(p, n)

SpecEnqueueAggregation == InitEnqueueAggregation /\ [][NextEnqueueAggregation]_vars

\* C38: when a batch handed to enqueueAggregationTask has another
\* aggregation ID than the task's, the call returns an error, enqueues no
\* aggregate task and no marker is written; with an empty list it returns
\* without error and enqueues nothing.  (With no fault spent the marker
\* listing before the call succeeded, so the call was made.)
C38_MismatchIsErrorEmptyIsSuccess ==
    LET readyBatches == aggregationBatches[1]
        called == pc[1] # "aggregation" /\ faults = 0
    IN  /\ (called /\ \E b \in Range(readyBatches) : b.aid # A) =>
              /\ Len(results[1]) = 1
              /\ results[1][1].err
              /\ results[1][1].at = "aggregation"
              /\ calls[1] = <<>>
              /\ markers = markersAtListing[1].aggregate
        /\ (called /\ readyBatches = <<>>) =>
              /\ \A i \in DOMAIN results[1] : ~results[1][i].err
              /\ calls[1] = <<>>
              /\ markers = markersAtListing[1].aggregate

\* The call was made with a batch of aggregation ID "a" followed by one of
\* "a-b", the window unmarked, and the run is over.
C38_Witness ==
    /\ pc[1] = "exited"
    /\ faults = 0
    /\ markers = {}
    /\ Len(aggregationBatches[1]) = 2
    /\ aggregationBatches[1][1].aid = A
    /\ aggregationBatches[1][2].aid = B
    /\ results[1][1].err

----------------------------------------------------------------------------
\* manifest-updater, secrets: the packet decryption key of a namespace.
\* A secret is [name, hasKey, age]: its name, whether its data has the
\* entry of the key, and the days since its creation.

\* packetDecryptionKeyMaxAge, in days.
packetDecryptionKeyMaxAge == 20

MaxSecretAge == 30

packetDecryptionKeyName == "packet-decryption-key"

\* deletePacketEncryptionSecret: the Delete call removes the secret or fails.
deletePacketEncryptionSecret(ns, secret) ==
    {[err |-> FALSE, namespace |-> ns \ {secret}],
     [err |-> TRUE, namespace |-> ns]}

\* createAndStorePacketEncryptionKey: NewPrioKey or the Create call fails,
\* or the namespace holds a new secret with a key.
createAndStorePacketEncryptionKey(ns) ==
    {[err |-> FALSE,
      namespace |-> ns \cup {[name |-> packetDecryptionKeyName, hasKey |-> TRUE, age |-> 0]}],
     [err |-> TRUE, namespace |-> ns]}

\* validateAndUpdatePacketEncryptionKey: nil for a secret that has its key
\* and is not older than the maximum age; otherwise the secret is deleted
\* and a new one created, and the failure of either is returned.
validateAndUpdatePacketEncryptionKey(secret) ==
    /\ output = NoOutput
    /\ secret \in namespace
    /\ LET expired == secret.age > packetDecryptionKeyMaxAge
           ok == secret.hasKey
       IN  IF ok /\ ~expired
           THEN /\ output' = Ok("nil")
                /\ namespace' = namespace
           ELSE \E deleted \in deletePacketEncryptionSecret(namespace, secret) :
                    IF deleted.err
                    THEN /\ output' = Error
                         /\ namespace' = deleted.namespace
                    ELSE \E created \in createAndStorePacketEncryptionKey(deleted.namespace) :
                            /\ output' = IF created.err THEN Error ELSE Ok("key")
                            /\ namespace' = created.namespace
    /\ UNCHANGED <<batchName, fileNames, fileInfix, buckets, markers, now, faults, pc,
                   aggregationIDs, idx, runNow, locals, enqueuers, results, gauges,
                   exitCode>>

\* The namespace holds one packet decryption key secret, with or without
\* its key, of any age.
InitSecrets ==
    /\ InitBuckets([s \in Slots |-> {}], TRUE)
    /\ InitProcess
    /\ batchName = <<>>
    /\ fileNames = <<>>
    /\ fileInfix = "batch"
    /\ output = NoOutput
    /\ \E hasKey \in BOOLEAN, age \in 0..MaxSecretAge :
          namespace = {[name |-> packetDecryptionKeyName, hasKey |-> hasKey, age |-> age]}

NextSecrets == \E secret \in namespace : validateAndUpdatePacketEncryptionKey(secret)

SpecSecrets == InitSecrets /\ [][NextSecrets]_vars

\* C39: after validateAndUpdatePacketEncryptionKey has returned, with a new
\* key, with nil or with an error, the namespace holds a packet decryption
\* key secret.
C39_NamespaceKeepsKeySecret ==
    output # NoOutput => \E s \in namespace : s.name = packetDecryptionKeyName

====
